---- MODULE Spec2Model ----
(***************************************************************************)
(* Verification model of the restaurant single-page application:           *)
(*   - the shopping cart (CartContext reducer, CartDropdown, MenuSection), *)
(*   - the scroll-spy navbar AnimeNavbar,                                  *)
(*   - the two-phase smooth scroll of useSmoothScroll,                     *)
(*   - the navbars ModernNavigation and Navigation, with its teardown,     *)
(*   - the scroll targets computed by the navigation code,                 *)
(*   - the video backgrounds OptimizedVideoBackground and                  *)
(*     SimpleVideoBackground, and the <source> chosen for the video,       *)
(*   - the throttled scroll handler of useScrollOptimized,                 *)
(*   - the debounce utility of performanceMonitor,                         *)
(*   - useDevicePerformance and useOptimizedAnimations.                    *)
(* Each subsystem has its own specification over the shared variables.     *)
(***************************************************************************)
EXTENDS Integers, Sequences, FiniteSets, TLC

VARIABLES
    cartState,      \* CartContext state: [items, totalItems, totalPrice, isOpen]
    lastOp,         \* history: the last cart UI operation, [op, id, before]
    netAdds,        \* history: per id, adds minus decrements since the entry was created
    scrollY,        \* window.scrollY
    layout,         \* [innerHeight, heroHeight]: window.innerHeight and the height of #home
    present,        \* names of the nav items whose section element is in the DOM
    scrollTarget,   \* target of the smooth window.scrollTo in progress, -1 when none
    activeItem,     \* AnimeNavbar state
    isMenuOpen,     \* AnimeNavbar state
    scrolled,       \* AnimeNavbar state
    showNavbar,     \* AnimeNavbar state
    isNavigating,   \* AnimeNavbar state
    navTimers,      \* pending setTimeout(..., 1000) callbacks: ms left, oldest first
    clickedItem,    \* history: the item of the latest nav click while its timer is pending
    lastEvent,      \* history: the kind of the last navbar event
    oscFlips,       \* history: consecutive +-1 px boundary scroll events that flipped showNavbar
    anims,          \* the invocations of enhancedScrollToElement, in call order
    overlays,       \* indices of the invocations whose overlay element is in document.body
    mnActiveItem,   \* ModernNavigation state: activeItem
    mnIsMenuOpen,   \* ModernNavigation state: isMenuOpen
    mnIsVisible,    \* ModernNavigation state: isVisible
    mnIsScrolled,   \* ModernNavigation state: isScrolled
    mnClicked,      \* history: the item whose click started the smooth scroll in progress
    mnLastEvent,    \* history: the kind of the last ModernNavigation event
    navState,       \* Navigation state: [activeItem, isMenuOpen, isScrolled, isVisible, isNavigating]
    navMobile,      \* the viewport shows the mobile menu of Navigation instead of the desktop items
    navTimeouts,    \* Navigation's pending setTimeout(onScrollComplete, 1000): ms left, oldest first
    navTicking,     \* useScrollOptimized ticking.current: a frame for the scroll callback is requested
    navMounted,     \* the Navigation component is mounted
    navLateCallbacks, \* history: the kinds of callbacks of Navigation run after its unmount
    navFocus,       \* keyboard focus and useFocusTrap: [activeElement, trap, key]
    progScroll,     \* history: the last scroll target computed by the navigation code
    ovb,            \* OptimizedVideoBackground state
    ovbProps,       \* OptimizedVideoBackground props: [lazy, mobileStrategy]
    ovbEnv,         \* the browser: [uaMobile, narrow, reducedMotion, connection]
    ovbMounted,     \* the mount effects of OptimizedVideoBackground have run
    ovbErrorOccurred, \* history: the <video> of OptimizedVideoBackground has fired error
    svb,            \* SimpleVideoBackground state: [videoLoaded, videoError]
    svbErrorOccurred, \* history: the video of SimpleVideoBackground has failed
    svbLoadCalls,   \* history: the number of video.load() calls of SimpleVideoBackground
    hook,           \* one useScrollOptimized instance: its refs, its pending frames, its last callback
    debouncer,      \* one debounce(func, wait) closure: its timeout, the calls made and func's invocations
    fnCall          \* a call of a pure function: [fn, input, output]

cartVars == <<cartState, lastOp, netAdds>>

pageVars == <<scrollY, layout, present, scrollTarget>>

animeVars == <<activeItem, isMenuOpen, scrolled, showNavbar, isNavigating, navTimers,
               clickedItem, lastEvent, oscFlips>>

scrollVars == <<anims, overlays>>

modernVars == <<mnActiveItem, mnIsMenuOpen, mnIsVisible, mnIsScrolled, mnClicked, mnLastEvent>>

navVars == <<navState, navMobile, navTimeouts, navTicking, navMounted, navLateCallbacks,
             navFocus>>

targetVars == <<progScroll>>

videoVars == <<ovb, ovbProps, ovbEnv, ovbMounted, ovbErrorOccurred, svb, svbErrorOccurred,
               svbLoadCalls>>

utilVars == <<hook, debouncer, fnCall>>

vars == <<cartVars, pageVars, animeVars, scrollVars, modernVars, navVars, targetVars, videoVars,
          utilVars>>

\* what the cart, AnimeNavbar, the two-phase scroll, ModernNavigation and
\* Navigation leave alone
nonCartVars == <<pageVars, animeVars, scrollVars, modernVars, navVars, targetVars, videoVars,
    utilVars>>

nonAnimeVars == <<cartVars, scrollVars, modernVars, navVars, targetVars, videoVars,
    utilVars>>

nonScrollVars == <<cartVars, animeVars, modernVars, navVars, targetVars, videoVars,
    utilVars>>

nonModernVars == <<cartVars, animeVars, scrollVars, navVars, targetVars, videoVars,
    utilVars>>

nonNavVars == <<cartVars, animeVars, modernVars, targetVars, videoVars,
    utilVars>>

nonTargetVars == <<cartVars, pageVars, animeVars, scrollVars, modernVars, navVars, videoVars,
    utilVars>>

nonVideoVars == <<cartVars, pageVars, animeVars, scrollVars, modernVars, navVars, targetVars,
    utilVars>>

(***************************************************************************)
(* Shopping cart                                                           *)
(***************************************************************************)

\* Largest quantity of one item the model lets the cart reach.
MaxQty == 3

\* ids of the first three entries of MenuSection.menuItems
CatalogIds == {"1", "2", "3"}

\* menuItems[].price
Price(id) == CASE id = "1" -> 320
               [] id = "2" -> 180
               [] id = "3" -> 220

NoOp == [op |-> "none", id |-> "", before |-> 0]

\* state.items.find(item => item.id === itemId)
InCart(items, id) == \E i \in 1..Len(items) : items[i].id = id

\* MenuSection.getItemQuantity
getItemQuantity(items, id) ==
    IF InCart(items, id)
    THEN LET i == CHOOSE j \in 1..Len(items) : items[j].id = id IN items[i].quantity
    ELSE 0

\* items.reduce((sum, item) => sum + item.quantity, 0)
RECURSIVE ReduceItems(_, _)
ReduceItems(items, acc) ==
    IF items = <<>> THEN acc
    ELSE ReduceItems(Tail(items), acc + Head(items).quantity)

\* items.reduce((sum, item) => sum + item.price * item.quantity, 0)
RECURSIVE ReducePrice(_, _)
ReducePrice(items, acc) ==
    IF items = <<>> THEN acc
    ELSE ReducePrice(Tail(items), acc + Head(items).price * Head(items).quantity)

\* faulty variant: the price total forgets the quantity
calculateTotalsNoQty(items, isOpen) ==
    [items |-> items, totalItems |-> ReduceItems(items, 0),
     totalPrice |-> ReducePrice([i \in 1..Len(items) |-> [items[i] EXCEPT !.quantity = 1]], 0),
     isOpen |-> isOpen]

\* the derived totals, recomputed from the item list on every action
calculateTotals(items, isOpen) ==
    [items |-> items, totalItems |-> ReduceItems(items, 0),
     totalPrice |-> ReducePrice(items, 0), isOpen |-> isOpen]

\* ADD_ITEM: increments the quantity if the id exists, else inserts with quantity 1
AddItemReducer(state, item) ==
    IF InCart(state.items, item.id)
    THEN calculateTotals(
            [i \in 1..Len(state.items) |->
                IF state.items[i].id = item.id
                THEN [state.items[i] EXCEPT !.quantity = @ + 1]
                ELSE state.items[i]], state.isOpen)
    ELSE calculateTotals(
            Append(state.items, [id |-> item.id, price |-> item.price, quantity |-> 1]),
            state.isOpen)

\* REMOVE_ITEM
RemoveItemReducer(state, id) ==
    calculateTotals(SelectSeq(state.items, LAMBDA x : x.id # id), state.isOpen)

\* UPDATE_QUANTITY: an update to <= 0 is treated as a removal
UpdateQuantityReducer(state, id, quantity) ==
    IF quantity <= 0
    THEN RemoveItemReducer(state, id)
    ELSE calculateTotals(
            [i \in 1..Len(state.items) |->
                IF state.items[i].id = id
                THEN [state.items[i] EXCEPT !.quantity = quantity]
                ELSE state.items[i]], state.isOpen)

\* CLEAR_CART
ClearCartReducer(state) == calculateTotals(<<>>, state.isOpen)

\* OPEN_CART / CLOSE_CART / TOGGLE_CART
SetOpenReducer(state, open) == calculateTotals(state.items, open)

\* faulty variant: the add button always sends the id of the first catalog entry
addItemPayloadFirstId(id) == [id |-> "1", price |-> Price(id)]

\* the payload MenuSection.handleAddToCart hands to addItem
addItemPayload(id) == [id |-> id, price |-> Price(id)]

\* faulty variant: a change to <= 0 is ignored instead of removing the item
handleQuantityChangeClamp(state, itemId, newQuantity) ==
    IF newQuantity <= 0
    THEN state
    ELSE UpdateQuantityReducer(state, itemId, newQuantity)

\* CartDropdown.handleQuantityChange
handleQuantityChange(state, itemId, newQuantity) ==
    IF newQuantity <= 0
    THEN RemoveItemReducer(state, itemId)
    ELSE UpdateQuantityReducer(state, itemId, newQuantity)

\* CartDropdown.handleCheckout: logs the items and closes the panel
handleCheckout(state) == SetOpenReducer(state, FALSE)

CartInit ==
    /\ cartState = [items |-> <<>>, totalItems |-> 0, totalPrice |-> 0, isOpen |-> FALSE]
    /\ lastOp = NoOp
    /\ netAdds = [id \in CatalogIds |-> 0]

\* MenuSection: the Add button of a menu card
HandleAddToCart(id) ==
    /\ getItemQuantity(cartState.items, id) < MaxQty
    /\ cartState' = AddItemReducer(cartState, addItemPayload(id))
    /\ lastOp' = [op |-> "add", id |-> id, before |-> getItemQuantity(cartState.items, id)]
    /\ netAdds' = [netAdds EXCEPT ![id] = @ + 1]

\* CartDropdown: the plus button of a cart row
PlusButton(id) ==
    /\ cartState.isOpen
    /\ InCart(cartState.items, id)
    /\ getItemQuantity(cartState.items, id) < MaxQty
    /\ cartState' = handleQuantityChange(cartState, id, getItemQuantity(cartState.items, id) + 1)
    /\ lastOp' = [op |-> "plus", id |-> id, before |-> getItemQuantity(cartState.items, id)]
    /\ netAdds' = [netAdds EXCEPT ![id] = @ + 1]

\* CartDropdown: the minus button of a cart row
MinusButton(id) ==
    /\ cartState.isOpen
    /\ InCart(cartState.items, id)
    /\ cartState' = handleQuantityChange(cartState, id, getItemQuantity(cartState.items, id) - 1)
    /\ lastOp' = [op |-> "minus", id |-> id, before |-> getItemQuantity(cartState.items, id)]
    /\ netAdds' = [netAdds EXCEPT ![id] = @ - 1]

\* CartDropdown: the trash button of a cart row
TrashButton(id) ==
    /\ cartState.isOpen
    /\ InCart(cartState.items, id)
    /\ cartState' = RemoveItemReducer(cartState, id)
    /\ lastOp' = [op |-> "remove", id |-> id, before |-> getItemQuantity(cartState.items, id)]
    /\ netAdds' = [netAdds EXCEPT ![id] = 0]

\* CartDropdown: "Proceed to Checkout" (rendered while the cart has items)
CheckoutButton ==
    /\ cartState.isOpen
    /\ Len(cartState.items) > 0
    /\ cartState' = handleCheckout(cartState)
    /\ lastOp' = [op |-> "checkout", id |-> "", before |-> cartState.totalItems]
    /\ UNCHANGED netAdds

\* CartDropdown: "Clear Cart" (rendered while the cart has items)
ClearCartButton ==
    /\ cartState.isOpen
    /\ Len(cartState.items) > 0
    /\ cartState' = ClearCartReducer(cartState)
    /\ lastOp' = [op |-> "clear", id |-> "", before |-> cartState.totalItems]
    /\ netAdds' = [id \in CatalogIds |-> 0]

\* CartDropdown: the overlay and the X button
CloseCart ==
    /\ cartState.isOpen
    /\ cartState' = SetOpenReducer(cartState, FALSE)
    /\ lastOp' = [op |-> "close", id |-> "", before |-> 0]
    /\ UNCHANGED netAdds

\* MenuSection: the floating "View Cart" button (rendered while totalItems > 0)
OpenCart ==
    /\ cartState.totalItems > 0
    /\ cartState' = SetOpenReducer(cartState, TRUE)
    /\ lastOp' = [op |-> "open", id |-> "", before |-> 0]
    /\ UNCHANGED netAdds

\* Navigation: the cart icon of the navbar
ToggleCart ==
    /\ cartState' = SetOpenReducer(cartState, ~cartState.isOpen)
    /\ lastOp' = [op |-> "toggle", id |-> "", before |-> 0]
    /\ UNCHANGED netAdds

CartNext ==
    \/ \E id \in CatalogIds : HandleAddToCart(id) /\ UNCHANGED nonCartVars
    \/ \E id \in CatalogIds : PlusButton(id) /\ UNCHANGED nonCartVars
    \/ \E id \in CatalogIds : MinusButton(id) /\ UNCHANGED nonCartVars
    \/ \E id \in CatalogIds : TrashButton(id) /\ UNCHANGED nonCartVars
    \/ CheckoutButton /\ UNCHANGED nonCartVars
    \/ ClearCartButton /\ UNCHANGED nonCartVars
    \/ CloseCart /\ UNCHANGED nonCartVars
    \/ OpenCart /\ UNCHANGED nonCartVars
    \/ ToggleCart /\ UNCHANGED nonCartVars

(***************************************************************************)
(* Page geometry shared by the navbars                                     *)
(***************************************************************************)

\* Most 1000 ms timers pending at once.
MaxTimers == 2

\* AnimeNavbar items[].name, in nav order
items == <<"Home", "Menu", "About", "Contact">>

ItemNames == {items[i] : i \in DOMAIN items}

\* window.innerHeight and the rendered height of the hero section (#home)
Layouts == {[innerHeight |-> 800, heroHeight |-> 800],
            [innerHeight |-> 600, heroHeight |-> 700]}

\* element.offsetTop of a section: the sections are stacked below the hero
offsetTop(name, L) ==
    CASE name = "Home" -> 0
      [] name = "Menu" -> L.heroHeight
      [] name = "About" -> L.heroHeight + 900
      [] name = "Contact" -> L.heroHeight + 1500

\* getBoundingClientRect().height of a section
rectHeight(name, L) ==
    CASE name = "Home" -> L.heroHeight
      [] name = "Menu" -> 900
      [] name = "About" -> 600
      [] name = "Contact" -> 700

\* the largest scroll offset of the document
maxScrollY(L) == offsetTop("Contact", L) + rectHeight("Contact", L) - L.innerHeight

Max(a, b) == IF a >= b THEN a ELSE b

Abs(a) == IF a >= 0 THEN a ELSE -a

\* the scroll offsets the model distinguishes: both sides of every threshold
\* of the navbar code, the navigation targets and the ends of the document
ScrollPoints(L) ==
    {0, 50, 51, 99, 100, 650,
     (4 * L.innerHeight) \div 5 - 1, (4 * L.innerHeight) \div 5, (4 * L.innerHeight) \div 5 + 1,
     offsetTop("Menu", L) - 80, offsetTop("Menu", L),
     offsetTop("About", L) - 80, offsetTop("Contact", L) - 80,
     maxScrollY(L)}

(***************************************************************************)
(* AnimeNavbar                                                             *)
(***************************************************************************)

\* faulty variant: the navbar also shows at the threshold itself
handleScrollShowNavbarAtThreshold(y, L) == 10 * y >= 8 * L.innerHeight

\* handleScroll: setShowNavbar(scrollY > heroHeight * 0.8), heroHeight = window.innerHeight
handleScrollShowNavbar(y, L) == 10 * y > 8 * L.innerHeight

\* handleScroll: setScrolled(scrollY > 50)
handleScrollScrolled(y) == y > 50

\* faulty variant: the first loop does not skip a section without element
RECURSIVE SpanSectionAnyElement(_, _, _, _)
SpanSectionAnyElement(i, y, L, P) ==
    IF i > Len(items) THEN "none"
    ELSE IF /\ y + 80 >= offsetTop(items[i], L)
            /\ y + 80 < offsetTop(items[i], L) + rectHeight(items[i], L)
         THEN items[i]
         ELSE SpanSectionAnyElement(i + 1, y, L, P)

\* handleScrollSpy, first loop: the section whose span holds scrollPosition + 80
RECURSIVE SpanSection(_, _, _, _)
SpanSection(i, y, L, P) ==
    IF i > Len(items) THEN "none"
    ELSE IF /\ items[i] \in P
            /\ y + 80 >= offsetTop(items[i], L)
            /\ y + 80 < offsetTop(items[i], L) + rectHeight(items[i], L)
         THEN items[i]
         ELSE SpanSection(i + 1, y, L, P)

\* let closestDistance = Infinity
Infinity == 1000000000

\* faulty variant: the distance is rect.top, not Math.abs(rect.top)
RECURSIVE ClosestSectionSigned(_, _, _, _, _, _)
ClosestSectionSigned(i, closest, closestDistance, y, L, P) ==
    IF i > Len(items) THEN closest
    ELSE IF items[i] \in P /\ offsetTop(items[i], L) - y < closestDistance
         THEN ClosestSectionSigned(i + 1, items[i], offsetTop(items[i], L) - y, y, L, P)
         ELSE ClosestSectionSigned(i + 1, closest, closestDistance, y, L, P)

\* handleScrollSpy, second loop: the present section with the least |rect.top|,
\* starting from closestSection = sections[0]
RECURSIVE ClosestSection(_, _, _, _, _, _)
ClosestSection(i, closest, closestDistance, y, L, P) ==
    IF i > Len(items) THEN closest
    ELSE IF items[i] \in P /\ Abs(offsetTop(items[i], L) - y) < closestDistance
         THEN ClosestSection(i + 1, items[i], Abs(offsetTop(items[i], L) - y), y, L, P)
         ELSE ClosestSection(i + 1, closest, closestDistance, y, L, P)

\* faulty variant: the top-of-page rule is missing
handleScrollSpyNoTopRule(active, navigating, y, L, P) ==
    IF navigating THEN active
    ELSE LET currentSection == SpanSection(1, y, L, P)
         IN IF currentSection # "none" THEN currentSection
            ELSE ClosestSection(1, items[1], Infinity, y, L, P)

\* handleScrollSpy: the active item after the listener ran
handleScrollSpy(active, navigating, y, L, P) ==
    IF navigating THEN active
    ELSE IF y < 100 THEN "Home"
    ELSE LET currentSection == SpanSection(1, y, L, P)
         IN IF currentSection # "none" THEN currentSection
            ELSE ClosestSection(1, items[1], Infinity, y, L, P)

\* handleNavClick: the top handed to window.scrollTo, -1 when no scroll is issued
navClickTarget(name, L, P) ==
    IF name = "Home" THEN 0
    ELSE IF name \in P THEN Max(0, offsetTop(name, L) - 80)
    ELSE -1

\* the 0.8 * innerHeight threshold of handleScroll, in px
animeThreshold(L) == (4 * L.innerHeight) \div 5

PageInit ==
    /\ scrollY = 0
    /\ layout \in Layouts
    /\ present \in SUBSET ItemNames
    /\ scrollTarget = -1

AnimeInit ==
    /\ activeItem = "Home"
    /\ isMenuOpen = FALSE
    /\ scrolled = FALSE
    /\ showNavbar = FALSE
    /\ isNavigating = FALSE
    /\ navTimers = <<>>
    /\ clickedItem = "none"
    /\ lastEvent = "init"
    /\ oscFlips = 0

\* both scroll listeners of AnimeNavbar run on a scroll event at offset y
AnimeOnScroll(y) ==
    /\ scrollY' = y
    /\ scrolled' = handleScrollScrolled(y)
    /\ showNavbar' = handleScrollShowNavbar(y, layout)
    /\ activeItem' = handleScrollSpy(activeItem, isNavigating, y, layout, present)
    /\ oscFlips' =
         IF /\ {scrollY, y} = {animeThreshold(layout) - 1, animeThreshold(layout) + 1}
            /\ handleScrollShowNavbar(y, layout) # showNavbar
         THEN IF oscFlips < 2 THEN oscFlips + 1 ELSE oscFlips
         ELSE 0
    /\ lastEvent' = "scroll"
    /\ UNCHANGED <<layout, present, isMenuOpen, isNavigating, navTimers, clickedItem>>

\* the user scrolls the page to offset y (this ends a smooth scroll in progress)
AnimeUserScroll(y) ==
    /\ y # scrollY
    /\ scrollTarget' = -1
    /\ AnimeOnScroll(y)

\* one step of the browser's smooth scroll towards scrollTarget
AnimeSmoothScrollStep(y) ==
    /\ scrollTarget # -1
    /\ y # scrollY
    /\ \/ scrollY < y /\ y <= scrollTarget
       \/ scrollY > y /\ y >= scrollTarget
    /\ scrollTarget' = IF y = scrollTarget THEN -1 ELSE scrollTarget
    /\ AnimeOnScroll(y)

\* handleNavClick (the navbar is rendered only while showNavbar)
HandleNavClick(name) ==
    /\ showNavbar
    /\ Len(navTimers) < MaxTimers
    /\ activeItem' = name
    /\ isMenuOpen' = FALSE
    /\ isNavigating' = TRUE
    /\ navTimers' = Append(navTimers, 1000)
    /\ clickedItem' = name
    /\ scrollTarget' =
         LET t == navClickTarget(name, layout, present)
         IN IF t = -1 THEN scrollTarget
            ELSE IF t = scrollY THEN -1
            ELSE t
    /\ lastEvent' = "click"
    /\ UNCHANGED <<scrollY, layout, present, scrolled, showNavbar, oscFlips>>

\* toggleMenu
ToggleMenu ==
    /\ showNavbar
    /\ isMenuOpen' = ~isMenuOpen
    /\ lastEvent' = "menu"
    /\ UNCHANGED <<pageVars, activeItem, scrolled, showNavbar, isNavigating, navTimers,
                   clickedItem, oscFlips>>

\* the steps by which the model lets time pass, in ms
TickSteps == {500}

\* time passes; no pending timer is overdue
AnimeTick(dt) ==
    /\ navTimers # <<>>
    /\ \A i \in DOMAIN navTimers : navTimers[i] >= dt
    /\ navTimers' = [i \in DOMAIN navTimers |-> navTimers[i] - dt]
    /\ lastEvent' = "tick"
    /\ UNCHANGED <<pageVars, activeItem, isMenuOpen, scrolled, showNavbar, isNavigating,
                   clickedItem, oscFlips>>

\* the oldest timer fires: setIsNavigating(false); when that changes isNavigating
\* the scroll-spy effect runs again and calls handleScrollSpy()
AnimeTimerFire ==
    /\ navTimers # <<>>
    /\ Head(navTimers) = 0
    /\ navTimers' = Tail(navTimers)
    /\ clickedItem' = IF Len(navTimers) = 1 THEN "none" ELSE clickedItem
    /\ isNavigating' = FALSE
    /\ activeItem' = IF isNavigating
                     THEN handleScrollSpy(activeItem, FALSE, scrollY, layout, present)
                     ELSE activeItem
    /\ lastEvent' = "timer"
    /\ UNCHANGED <<pageVars, isMenuOpen, scrolled, showNavbar, oscFlips>>

AnimeNext ==
    \/ \E y \in ScrollPoints(layout) : AnimeUserScroll(y) /\ UNCHANGED nonAnimeVars
    \/ \E y \in ScrollPoints(layout) : AnimeSmoothScrollStep(y) /\ UNCHANGED nonAnimeVars
    \/ \E name \in ItemNames : HandleNavClick(name) /\ UNCHANGED nonAnimeVars
    \/ ToggleMenu /\ UNCHANGED nonAnimeVars
    \/ \E dt \in TickSteps : AnimeTick(dt) /\ UNCHANGED nonAnimeVars
    \/ AnimeTimerFire /\ UNCHANGED nonAnimeVars

(***************************************************************************)
(* useSmoothScroll.enhancedScrollToElement: the two-phase scroll           *)
(***************************************************************************)

\* Most invocations of enhancedScrollToElement in one behaviour.
MaxAnims == 2

\* const phase1Duration = 800
phase1Duration == 800

\* const phase2Duration = 1200
phase2Duration == 1200

\* setTimeout(..., 300) after phase 2
fadeDelay == 300

\* the time between two animation frames (and timer checks) of the model, in ms
FrameSteps == {400, 500}

Min(a, b) == IF a <= b THEN a ELSE b

\* the browser keeps the scroll offset within the document
clampScroll(y, L) == Max(0, Min(y, maxScrollY(L)))

\* the offsets from which the model starts a scroll: at, just inside and just
\* outside the 10 px band around the targets
ScrollStarts(L) ==
    {0, 9, 10, offsetTop("Menu", L) - 80 - 9}

\* the offset Navigation.handleNavigation passes for a nav item
navOffset(name) == IF name = "Home" THEN 0 ELSE 80

\* const targetPosition = Math.max(0, elementTop - offset)
targetPosition(name, offset, L) == Max(0, offsetTop(name, L) - offset)

\* faulty variant: only a distance of 0 counts as "already at target"
alreadyAtTargetExact(distance) == distance = 0

\* if (Math.abs(distance) < 10)
alreadyAtTarget(distance) == Abs(distance) < 10

\* the phase 1 position as a fraction <<numerator, denominator>>, unrounded
phase1PositionExact(start, distance, elapsed) ==
    LET k == Min(elapsed, phase1Duration) \div 100
        d == phase1Duration \div 100
    IN <<start * 10 * d * d * d + distance * 7 * (d * d * d - (d - k) * (d - k) * (d - k)),
         10 * d * d * d>>

\* faulty variant: phase 1 covers 80% of the distance
phase1PositionFourFifths(start, distance, elapsed) ==
    LET k == Min(elapsed, phase1Duration) \div 100
        d == phase1Duration \div 100
    IN start + (distance * 8 * (d * d * d - (d - k) * (d - k) * (d - k))) \div (10 * d * d * d)

\* phase 1 position: startPosition + distance * 0.7 * (1 - (1 - progress)^3),
\* progress = min(elapsed / 800, 1), on the model's 100 ms grid
phase1Position(start, distance, elapsed) ==
    LET k == Min(elapsed, phase1Duration) \div 100
        d == phase1Duration \div 100
    IN start + (distance * 7 * (d * d * d - (d - k) * (d - k) * (d - k))) \div (10 * d * d * d)

\* phase 2 ease-in-out: progress < 0.5 ? 2 p^2 : 1 - (-2 p + 2)^2 / 2, as a
\* numerator over 2 * d * d with p = k / d
easeInOutNum(k, d) ==
    IF 2 * k < d THEN 4 * k * k
    ELSE 2 * d * d - (2 * d - 2 * k) * (2 * d - 2 * k)

\* the phase 2 position as a fraction <<numerator, denominator>>, unrounded
phase2PositionExact(start, distance, elapsed) ==
    LET k == Min(elapsed, phase2Duration) \div 100
        d == phase2Duration \div 100
    IN <<start * 10 * 2 * d * d + distance * 7 * 2 * d * d + distance * 3 * easeInOutNum(k, d),
         10 * 2 * d * d>>

\* phase 2 position: phase1Target + distance * 0.3 * easeProgress
phase2Position(start, distance, elapsed) ==
    LET k == Min(elapsed, phase2Duration) \div 100
        d == phase2Duration \div 100
    IN start + (distance * 7 * 2 * d * d + distance * 3 * easeInOutNum(k, d)) \div (10 * 2 * d * d)

\* the record of an invocation whose element is missing: it returns at once
MissingAnim(start) ==
    [phase |-> "missing", started |-> FALSE, elapsed |-> 0, start |-> start,
     target |-> -1, fadeElapsed |-> 0, completeCalls |-> 0, rafRequested |-> FALSE,
     lastScrollTo |-> -1, p1Progress |-> -1, p2Progress |-> -1]

\* the record of an invocation within 10 px of its target: onComplete, return
SkippedAnim(start, target) ==
    [phase |-> "done", started |-> FALSE, elapsed |-> 0, start |-> start,
     target |-> target, fadeElapsed |-> 0, completeCalls |-> 1, rafRequested |-> FALSE,
     lastScrollTo |-> -1, p1Progress |-> -1, p2Progress |-> -1]

\* the record of an invocation that starts phase 1: one animation frame requested
StartedAnim(start, target) ==
    [phase |-> "phase1", started |-> FALSE, elapsed |-> 0, start |-> start,
     target |-> target, fadeElapsed |-> 0, completeCalls |-> 0, rafRequested |-> TRUE,
     lastScrollTo |-> -1, p1Progress |-> -1, p2Progress |-> -1]

\* enhancedScrollToElement up to its first requestAnimationFrame
enhancedScrollToElement(name, offset, start, L, P) ==
    IF name \notin P THEN MissingAnim(start)
    ELSE IF alreadyAtTarget(targetPosition(name, offset, L) - start)
         THEN SkippedAnim(start, targetPosition(name, offset, L))
         ELSE StartedAnim(start, targetPosition(name, offset, L))

\* elapsed = currentTime - startTime, startTime being set by the first frame
frameElapsed(a, dt) == IF a.started THEN a.elapsed + dt ELSE 0

\* faulty variant: phase 2 is started as soon as phase 1 has run one frame
phase1AnimationNoWait(a, dt) ==
    LET e == frameElapsed(a, dt)
        pos == phase1Position(a.start, a.target - a.start, e)
    IN [a EXCEPT !.phase = "phase2", !.started = FALSE, !.elapsed = 0,
                 !.rafRequested = TRUE, !.lastScrollTo = pos, !.p1Progress = Min(e, phase1Duration)]

\* phase1Animation: one animation frame of phase 1
phase1Animation(a, dt) ==
    LET e == frameElapsed(a, dt)
        pos == phase1Position(a.start, a.target - a.start, e)
    IN IF e < phase1Duration
       THEN [a EXCEPT !.started = TRUE, !.elapsed = e, !.rafRequested = TRUE,
                      !.lastScrollTo = pos, !.p1Progress = Min(e, phase1Duration)]
       ELSE [a EXCEPT !.phase = "phase2", !.started = FALSE, !.elapsed = 0,
                      !.rafRequested = TRUE, !.lastScrollTo = pos, !.p1Progress = Min(e, phase1Duration)]

\* phase2Animation: one animation frame of phase 2
phase2Animation(a, dt) ==
    LET e == frameElapsed(a, dt)
        pos == phase2Position(a.start, a.target - a.start, e)
    IN IF e < phase2Duration
       THEN [a EXCEPT !.started = TRUE, !.elapsed = e, !.rafRequested = TRUE,
                      !.lastScrollTo = pos, !.p2Progress = Min(e, phase2Duration)]
       ELSE [a EXCEPT !.phase = "fade", !.started = FALSE, !.elapsed = 0,
                      !.fadeElapsed = 0, !.lastScrollTo = pos, !.p2Progress = Min(e, phase2Duration)]

\* what the passing of dt ms with one animation frame does to an invocation
animFrame(a, dt) ==
    CASE a.phase = "phase1" -> phase1Animation(a, dt)
      [] a.phase = "phase2" -> phase2Animation(a, dt)
      [] a.phase = "fade" -> [a EXCEPT !.fadeElapsed = Min(@ + dt, fadeDelay)]
      [] OTHER -> a

\* window.scrollY after the frame callbacks ran in the order they were requested
RECURSIVE scrollAfterFrame(_, _, _, _, _)
scrollAfterFrame(i, y, old, new, L) ==
    IF i > Len(old) THEN y
    ELSE IF old[i].phase \in {"phase1", "phase2"}
         THEN scrollAfterFrame(i + 1, clampScroll(new[i].lastScrollTo, L), old, new, L)
         ELSE scrollAfterFrame(i + 1, y, old, new, L)

InFlight(a) == a.phase \in {"phase1", "phase2", "fade"}

ScrollInit ==
    /\ anims = <<>>
    /\ overlays = {}

\* a call of enhancedScrollToElement(selector, offset, onComplete)
EnhancedScrollCall(name, offset) ==
    /\ Len(anims) < MaxAnims
    /\ LET a == enhancedScrollToElement(name, offset, scrollY, layout, present)
       IN /\ anims' = Append(anims, a)
          /\ overlays' = IF a.phase = "phase1" THEN overlays \cup {Len(anims) + 1}
                         ELSE overlays
    /\ UNCHANGED <<scrollY, layout, present, scrollTarget>>

\* dt ms pass and the pending animation-frame callbacks run
AnimationFrame(dt) ==
    /\ \E i \in DOMAIN anims : InFlight(anims[i])
    /\ \E i \in DOMAIN anims : anims[i] # animFrame(anims[i], dt)
    /\ anims' = [i \in DOMAIN anims |-> animFrame(anims[i], dt)]
    /\ scrollY' = scrollAfterFrame(1, scrollY, anims, anims', layout)
    /\ UNCHANGED <<overlays, layout, present, scrollTarget, nonScrollVars>>

\* faulty variant: the timeout callback forgets document.body.removeChild(overlay)
fadeTimeoutOverlaysKept(ov, i) == ov

\* the overlays in the document after the timeout callback of invocation i
fadeTimeoutOverlays(ov, i) == ov \ {i}

\* the 300 ms timeout of invocation i fires: removeChild(overlay); onComplete()
FadeTimeout(i) ==
    /\ anims[i].phase = "fade"
    /\ anims[i].fadeElapsed >= fadeDelay
    /\ overlays' = fadeTimeoutOverlays(overlays, i)
    /\ anims' = [anims EXCEPT ![i].phase = "done", ![i].completeCalls = @ + 1]
    /\ UNCHANGED <<scrollY, layout, present, scrollTarget, nonScrollVars>>

\* the user scrolls the page before the hook is first used
ScrollUserScroll(y) ==
    /\ y # scrollY
    /\ anims = <<>>
    /\ scrollY' = y
    /\ UNCHANGED <<anims, overlays, layout, present, scrollTarget>>

ScrollNext ==
    \/ \E name \in ItemNames : EnhancedScrollCall(name, navOffset(name)) /\ UNCHANGED nonScrollVars
    \/ \E dt \in FrameSteps : AnimationFrame(dt)
    \/ \E i \in DOMAIN anims : FadeTimeout(i)
    \/ \E y \in ScrollStarts(layout) : ScrollUserScroll(y) /\ UNCHANGED nonScrollVars

(***************************************************************************)
(* ModernNavigation, the navbar mounted by pages/Index.tsx                 *)
(***************************************************************************)

\* navigationItems[].id, in nav order
navigationItems == <<"home", "menu", "contact">>

\* the section element a navigation item's href selects
sectionName(id) ==
    CASE id = "home" -> "Home"
      [] id = "menu" -> "Menu"
      [] id = "contact" -> "Contact"

\* the sections pages/Index.tsx renders: Hero, then the lazily loaded
\* DarkMenuSection and DarkContactSection
IndexSections == {{"Home"}, {"Home", "Menu"}, {"Home", "Menu", "Contact"}}

\* element.offsetTop on the Index page: the sections are stacked below the hero
indexOffsetTop(id, L) ==
    CASE id = "home" -> 0
      [] id = "menu" -> L.heroHeight
      [] id = "contact" -> L.heroHeight + 900

\* getBoundingClientRect().height on the Index page
indexRectHeight(id, L) ==
    CASE id = "home" -> L.heroHeight
      [] id = "menu" -> 900
      [] id = "contact" -> 1000

\* the height of the Index page with the sections P rendered
indexPageHeight(L, P) ==
    IF "Contact" \in P THEN indexOffsetTop("contact", L) + indexRectHeight("contact", L)
    ELSE IF "Menu" \in P THEN indexOffsetTop("menu", L) + indexRectHeight("menu", L)
    ELSE L.heroHeight

\* the largest scroll offset of the Index page
indexMaxScrollY(L, P) == Max(0, indexPageHeight(L, P) - L.innerHeight)

\* the scroll offsets the model distinguishes on the Index page
IndexScrollPoints(L, P) ==
    {y \in {0, L.heroHeight - 100, L.heroHeight - 99,
            indexOffsetTop("menu", L), indexOffsetTop("menu", L) + 400,
            indexOffsetTop("contact", L) - 101, indexOffsetTop("contact", L) - 100,
            indexOffsetTop("contact", L), indexMaxScrollY(L, P)} :
        y <= indexMaxScrollY(L, P)}

\* heroSection ? heroSection.clientHeight : window.innerHeight
modernHeroHeight(L, P) == IF "Home" \in P THEN L.heroHeight ELSE L.innerHeight

\* the scroll handler: latest > heroHeight - 100
modernIsVisible(latest, L, P) == latest > modernHeroHeight(L, P) - 100

\* the scroll handler's sections.forEach: the last section other than home
\* with rect.top <= 100 && rect.bottom >= 100 wins
RECURSIVE modernCurrentSection(_, _, _, _, _)
modernCurrentSection(i, current, latest, L, P) ==
    IF i > Len(navigationItems) THEN current
    ELSE LET id == navigationItems[i]
             top == indexOffsetTop(id, L) - latest
             bottom == top + indexRectHeight(id, L)
         IN IF sectionName(id) \in P /\ id # "home" /\ top <= 100 /\ bottom >= 100
            THEN modernCurrentSection(i + 1, id, latest, L, P)
            ELSE modernCurrentSection(i + 1, current, latest, L, P)

\* the scroll handler: the value handed to setActiveItem
modernActiveItem(latest, L, P) ==
    IF modernIsVisible(latest, L, P)
    THEN modernCurrentSection(1, "home", latest, L, P)
    ELSE "home"

\* handleNavigation: the top handed to window.scrollTo, -1 when no scroll is issued
modernScrollTop(id, L, P) ==
    IF sectionName(id) \notin P THEN -1
    ELSE IF id = "home" THEN 0
    ELSE indexOffsetTop(id, L)

ModernInit ==
    /\ mnActiveItem = "home"
    /\ mnIsMenuOpen = FALSE
    /\ mnIsVisible = FALSE
    /\ mnIsScrolled = FALSE
    /\ mnClicked = "none"
    /\ mnLastEvent = "init"

\* useMotionValueEvent(scrollY, "change", ...) runs at offset latest
ModernOnScroll(latest) ==
    /\ scrollY' = latest
    /\ mnIsVisible' = modernIsVisible(latest, layout, present)
    /\ mnIsScrolled' = modernIsVisible(latest, layout, present)
    /\ mnActiveItem' = modernActiveItem(latest, layout, present)
    /\ mnLastEvent' = "scroll"
    /\ UNCHANGED <<layout, present, mnIsMenuOpen>>

\* the user scrolls the page (this ends a smooth scroll in progress)
ModernUserScroll(latest) ==
    /\ latest # scrollY
    /\ scrollTarget' = -1
    /\ mnClicked' = "none"
    /\ ModernOnScroll(latest)
    /\ UNCHANGED nonModernVars

\* one step of the browser's smooth scroll towards scrollTarget
ModernSmoothScrollStep(latest) ==
    /\ scrollTarget # -1
    /\ latest # scrollY
    /\ \/ scrollY < latest /\ latest <= scrollTarget
       \/ scrollY > latest /\ latest >= scrollTarget
    /\ scrollTarget' = IF latest = scrollTarget THEN -1 ELSE scrollTarget
    /\ ModernOnScroll(latest)
    /\ UNCHANGED <<mnClicked, nonModernVars>>

\* handleNavigation(item); the bar takes no pointer events while hidden
ModernHandleNavigation(id) ==
    /\ mnIsVisible
    /\ mnActiveItem' = id
    /\ mnIsMenuOpen' = FALSE
    /\ LET top == modernScrollTop(id, layout, present)
           \* the browser scrolls no further than the end of the document
           t == IF top = -1 THEN -1 ELSE Min(top, indexMaxScrollY(layout, present))
       IN /\ scrollTarget' = IF t = -1 THEN scrollTarget
                             ELSE IF t = scrollY THEN -1
                             ELSE t
          /\ mnClicked' = IF t = -1 THEN mnClicked
                          ELSE IF t = scrollY THEN "none"
                          ELSE id
    /\ mnLastEvent' = "click"
    /\ UNCHANGED <<scrollY, layout, present, mnIsVisible, mnIsScrolled, nonModernVars>>

\* the mobile menu button: setIsMenuOpen(!isMenuOpen)
ModernToggleMenu ==
    /\ mnIsVisible
    /\ mnIsMenuOpen' = ~mnIsMenuOpen
    /\ mnLastEvent' = "menu"
    /\ UNCHANGED <<pageVars, mnActiveItem, mnIsVisible, mnIsScrolled, mnClicked, nonModernVars>>

\* the window is resized to layout L: the component has no resize listener;
\* its scroll handler runs only if the browser has to move the scroll offset
\* back into the shorter document; a smooth scroll in progress ends
ModernResize(L) ==
    /\ L # layout
    /\ layout' = L
    /\ scrollY' = Min(scrollY, indexMaxScrollY(L, present))
    /\ IF scrollY' # scrollY
       THEN /\ mnIsVisible' = modernIsVisible(scrollY', L, present)
            /\ mnIsScrolled' = modernIsVisible(scrollY', L, present)
            /\ mnActiveItem' = modernActiveItem(scrollY', L, present)
            /\ mnLastEvent' = "scroll"
       ELSE /\ mnLastEvent' = "resize"
            /\ UNCHANGED <<mnIsVisible, mnIsScrolled, mnActiveItem>>
    /\ scrollTarget' = -1
    /\ mnClicked' = "none"
    /\ UNCHANGED <<present, mnIsMenuOpen, nonModernVars>>

ModernNext ==
    \/ \E latest \in IndexScrollPoints(layout, present) : ModernUserScroll(latest)
    \/ \E latest \in IndexScrollPoints(layout, present) : ModernSmoothScrollStep(latest)
    \/ \E i \in DOMAIN navigationItems : ModernHandleNavigation(navigationItems[i])
    \/ ModernToggleMenu
    \/ \E L \in Layouts : ModernResize(L)

(***************************************************************************)
(* Navigation (components/ui/navigation.tsx)                               *)
(***************************************************************************)

\* the scroll callback: shouldShowNavbar
navShouldShowNavbar(y, L, P) ==
    IF "Home" \in P /\ "Menu" \in P
    THEN y > (offsetTop("Home", L) + rectHeight("Home", L)) - 100
    ELSE y > 50

\* useScrollOptimized: isScrolled: scrollY > threshold, threshold 50
navIsScrolled(y) == y > 50

\* the scroll callback's setState
navScrollCallback(st, y, L, P) ==
    [st EXCEPT !.isScrolled = navIsScrolled(y), !.isVisible = navShouldShowNavbar(y, L, P)]

\* handleNavigation's first setState
navStartNavigation(st, id) ==
    [st EXCEPT !.activeItem = id, !.isMenuOpen = FALSE, !.isNavigating = TRUE]

\* onScrollComplete
onScrollComplete(st) == [st EXCEPT !.isNavigating = FALSE]

\* handleNavigation, desktop path: the top handed to window.scrollTo by
\* scrollToTop / scrollToElement(item.href, 80), -1 when no scroll is issued
navDesktopScrollTop(id, L, P) ==
    IF id = "home" THEN 0
    ELSE IF sectionName(id) \in P THEN Max(0, offsetTop(sectionName(id), L) - 80)
    ELSE -1

\* the scroll offsets the user moves to on the page of Navigation
NavScrollPoints(L) ==
    {0, offsetTop("Menu", L) - 100, offsetTop("Menu", L) - 80 - 9, offsetTop("Menu", L) - 80}

\* the time between two animation frames (and timer checks) of Navigation, in ms
NavSteps == {500}

NavInit ==
    /\ navState = [activeItem |-> "home", isMenuOpen |-> FALSE, isScrolled |-> FALSE,
                   isVisible |-> TRUE, isNavigating |-> FALSE]
    /\ navTimeouts = <<>>
    /\ navTicking = TRUE
    /\ navMounted = TRUE
    /\ navLateCallbacks = {}
    /\ navFocus = [activeElement |-> 0, trap |-> "none", key |-> "none"]

\* the mobile menu is in the DOM: the component renders null while not
\* visible, and the menu only while isMenuOpen
menuMounted(st) == st.isVisible /\ st.isMenuOpen

\* the focusable elements of the mobile menu: one button per navigation item;
\* document.activeElement is the i-th of them, or 0 for an element outside
\* the menu
menuFocusable == Len(navigationItems)

\* useFocusTrap(state.isMenuOpen) and the DOM after a render that takes the
\* state from st to st2. The effect depends on isActive only: it captures the
\* menu's elements and focuses the first when isMenuOpen becomes true, and
\* its cleanup removes the listener when isMenuOpen becomes false. A menu
\* that is unmounted while open takes the focus with it and leaves the
\* listener with the elements it captured.
focusAfter(f, st, st2) ==
    [activeElement |->
        IF ~st.isMenuOpen /\ menuMounted(st2) THEN 1
        ELSE IF menuMounted(st) /\ ~menuMounted(st2) THEN 0
        ELSE f.activeElement,
     trap |->
        IF ~st2.isMenuOpen THEN "none"
        ELSE IF ~st.isMenuOpen THEN (IF menuMounted(st2) THEN "current" ELSE "none")
        ELSE IF menuMounted(st) /\ ~menuMounted(st2) /\ f.trap = "current" THEN "stale"
        ELSE f.trap,
     key |-> "none"]

\* the browser's own handling of Tab / Shift+Tab: the next or previous
\* focusable element of the document; outside the menu the focus stays
\* outside or enters the menu at its near end
browserTab(active, shift) ==
    IF active = 0 THEN {0, IF shift THEN menuFocusable ELSE 1}
    ELSE IF shift THEN {active - 1}
    ELSE {IF active = menuFocusable THEN 0 ELSE active + 1}

\* handleTabKey of useFocusTrap, then the browser's handling unless
\* preventDefault was called: the elements document.activeElement can be
\* afterwards. The listener compares with the elements it captured.
handleTabKey(f, shift) ==
    IF f.trap = "current" /\ shift /\ f.activeElement = 1 THEN {menuFocusable}
    ELSE IF f.trap = "current" /\ ~shift /\ f.activeElement = menuFocusable THEN {1}
    ELSE browserTab(f.activeElement, shift)

\* the callbacks run after the unmount, with one more of the given kind
lateCallbacks(kinds) == IF navMounted THEN navLateCallbacks ELSE navLateCallbacks \cup kinds

\* the frame requested by the initial handleScroll() call of the effect runs
NavInitialFrame ==
    /\ navTicking
    /\ navTicking' = FALSE
    /\ navState' = navScrollCallback(navState, scrollY, layout, present)
    /\ navLateCallbacks' = lateCallbacks({"scroll frame"})
    /\ navFocus' = focusAfter(navFocus, navState, navState')
    /\ UNCHANGED <<pageVars, navMobile, navTimeouts, navMounted, anims, overlays, nonNavVars>>

\* the user scrolls the page before the first nav click; the scroll callback
\* runs in the next animation frame
NavUserScroll(y) ==
    /\ navMounted
    /\ y # scrollY
    /\ anims = <<>>
    /\ navTimeouts = <<>>
    /\ ~navState.isNavigating
    /\ scrollY' = y
    /\ navState' = navScrollCallback(navState, y, layout, present)
    /\ navTicking' = FALSE
    /\ navFocus' = focusAfter(navFocus, navState, navState')
    /\ UNCHANGED <<layout, present, scrollTarget, navMobile, navTimeouts, navMounted,
                   navLateCallbacks, anims, overlays, nonNavVars>>

\* one step of the browser's smooth scroll towards scrollTarget; the scroll
\* listener is there while the component is mounted
NavSmoothScrollStep(y) ==
    /\ scrollTarget # -1
    /\ y # scrollY
    /\ \/ scrollY < y /\ y <= scrollTarget
       \/ scrollY > y /\ y >= scrollTarget
    /\ scrollTarget' = IF y = scrollTarget THEN -1 ELSE scrollTarget
    /\ scrollY' = y
    /\ navState' = IF navMounted \/ navTicking
                   THEN navScrollCallback(navState, y, layout, present)
                   ELSE navState
    /\ navTicking' = FALSE
    /\ navLateCallbacks' = IF navTicking THEN lateCallbacks({"scroll frame"})
                           ELSE navLateCallbacks
    /\ navFocus' = focusAfter(navFocus, navState, navState')
    /\ UNCHANGED <<layout, present, navMobile, navTimeouts, navMounted, anims, overlays,
                   nonNavVars>>

\* handleNavigation(item, false): the logo, and the items of the desktop bar
NavDesktopClick(id) ==
    /\ navMounted
    /\ navState.isVisible
    /\ id = "home" \/ ~navMobile
    /\ Len(navTimeouts) < MaxTimers
    /\ navState' = navStartNavigation(navState, id)
    /\ navTimeouts' = Append(navTimeouts, 1000)
    /\ scrollTarget' =
         LET t == navDesktopScrollTop(id, layout, present)
         IN IF t = -1 THEN scrollTarget
            ELSE IF t = scrollY THEN -1
            ELSE t
    /\ navFocus' = focusAfter(navFocus, navState, navState')
    /\ UNCHANGED <<scrollY, layout, present, navMobile, navTicking, navMounted,
                   navLateCallbacks, anims, overlays, nonNavVars>>

\* handleNavigation(item, true): an item of the open mobile menu
NavMobileClick(id) ==
    /\ navMounted
    /\ navState.isVisible
    /\ navMobile
    /\ navState.isMenuOpen
    /\ Len(anims) < MaxAnims
    /\ LET a == enhancedScrollToElement(sectionName(id), navOffset(sectionName(id)),
                                        scrollY, layout, present)
       IN /\ anims' = Append(anims, a)
          /\ overlays' = IF a.phase = "phase1" THEN overlays \cup {Len(anims) + 1}
                         ELSE overlays
          /\ navState' = IF a.completeCalls = 1
                         THEN onScrollComplete(navStartNavigation(navState, id))
                         ELSE navStartNavigation(navState, id)
    /\ navFocus' = focusAfter(navFocus, navState, navState')
    /\ UNCHANGED <<pageVars, navMobile, navTimeouts, navTicking, navMounted, navLateCallbacks,
                   nonNavVars>>

\* toggleMobileMenu
NavToggleMobileMenu ==
    /\ navMounted
    /\ navState.isVisible
    /\ navMobile
    /\ navState' = [navState EXCEPT !.isMenuOpen = ~@]
    /\ navFocus' = focusAfter(navFocus, navState, navState')
    /\ UNCHANGED <<pageVars, navMobile, navTimeouts, navTicking, navMounted, navLateCallbacks,
                   anims, overlays, nonNavVars>>

\* dt ms pass: the pending animation-frame callbacks run (a scrollTo of theirs
\* ends a smooth scroll and is followed by the scroll callback) and the
\* 1000 ms timers run down
NavTimePasses(dt) ==
    /\ \/ \E i \in DOMAIN anims : anims[i] # animFrame(anims[i], dt)
       \/ \E i \in DOMAIN navTimeouts : navTimeouts[i] > 0
    /\ anims' = [i \in DOMAIN anims |-> animFrame(anims[i], dt)]
    /\ scrollY' = scrollAfterFrame(1, scrollY, anims, anims', layout)
    /\ scrollTarget' = IF \E i \in DOMAIN anims : anims[i].phase \in {"phase1", "phase2"}
                       THEN -1
                       ELSE scrollTarget
    /\ navState' = IF (navMounted /\ scrollY' # scrollY) \/ navTicking
                   THEN navScrollCallback(navState, scrollY', layout, present)
                   ELSE navState
    /\ navTicking' = FALSE
    /\ navTimeouts' = [i \in DOMAIN navTimeouts |-> Max(0, navTimeouts[i] - dt)]
    /\ navLateCallbacks' =
         lateCallbacks((IF navTicking THEN {"scroll frame"} ELSE {})
                       \cup (IF anims' # anims THEN {"two-phase scroll"} ELSE {}))
    /\ navFocus' = focusAfter(navFocus, navState, navState')
    /\ UNCHANGED <<layout, present, navMobile, navMounted, overlays, nonNavVars>>

\* the oldest setTimeout(onScrollComplete, 1000) fires
NavTimeoutFire ==
    /\ navTimeouts # <<>>
    /\ Head(navTimeouts) = 0
    /\ navTimeouts' = Tail(navTimeouts)
    /\ navState' = onScrollComplete(navState)
    /\ navLateCallbacks' = lateCallbacks({"isNavigating timer"})
    /\ navFocus' = focusAfter(navFocus, navState, navState')
    /\ UNCHANGED <<pageVars, navMobile, navTicking, navMounted, anims, overlays, nonNavVars>>

\* the 300 ms timeout of invocation i fires: removeChild(overlay); onScrollComplete()
NavFadeTimeout(i) ==
    /\ anims[i].phase = "fade"
    /\ anims[i].fadeElapsed >= fadeDelay
    /\ overlays' = fadeTimeoutOverlays(overlays, i)
    /\ anims' = [anims EXCEPT ![i].phase = "done", ![i].completeCalls = @ + 1]
    /\ navState' = onScrollComplete(navState)
    /\ navLateCallbacks' = lateCallbacks({"two-phase scroll"})
    /\ navFocus' = focusAfter(navFocus, navState, navState')
    /\ UNCHANGED <<pageVars, navMobile, navTimeouts, navTicking, navMounted, nonNavVars>>

\* the component is unmounted: the cleanup of useScrollOptimized removes the
\* scroll listener; nothing else is cleared, and the callbacks that run later
\* still call setState
NavUnmount ==
    /\ navMounted
    /\ navMounted' = FALSE
    /\ UNCHANGED <<navFocus, pageVars, navState, navMobile, navTimeouts, navTicking,
                   navLateCallbacks,
                   anims, overlays, nonNavVars>>

\* Tab or Shift+Tab is pressed while the mobile menu is shown
NavTabKey(shift) ==
    /\ navMounted
    /\ menuMounted(navState)
    /\ \E e \in handleTabKey(navFocus, shift) :
           navFocus' = [navFocus EXCEPT !.activeElement = e,
                                        !.key = IF shift THEN "Shift+Tab" ELSE "Tab"]
    /\ UNCHANGED <<pageVars, navState, navMobile, navTimeouts, navTicking, navMounted,
                   navLateCallbacks, anims, overlays, nonNavVars>>

\* handleEscape: Escape is pressed while isMenuOpen
NavEscapeKey ==
    /\ navMounted
    /\ navState.isMenuOpen
    /\ navState' = [navState EXCEPT !.isMenuOpen = FALSE]
    /\ navFocus' = [focusAfter(navFocus, navState, navState') EXCEPT !.key = "Escape"]
    /\ UNCHANGED <<pageVars, navMobile, navTimeouts, navTicking, navMounted, navLateCallbacks,
                   anims, overlays, nonNavVars>>

NavNext ==
    \/ NavInitialFrame
    \/ \E y \in NavScrollPoints(layout) : NavUserScroll(y)
    \/ \E y \in NavScrollPoints(layout) : NavSmoothScrollStep(y)
    \/ \E i \in DOMAIN navigationItems : NavDesktopClick(navigationItems[i])
    \/ \E i \in DOMAIN navigationItems : NavMobileClick(navigationItems[i])
    \/ NavToggleMobileMenu
    \/ \E dt \in NavSteps : NavTimePasses(dt)
    \/ NavTimeoutFire
    \/ \E i \in DOMAIN anims : NavFadeTimeout(i)
    \/ NavUnmount
    \/ \E shift \in BOOLEAN : NavTabKey(shift)
    \/ NavEscapeKey

(***************************************************************************)
(* The scroll targets of the navigation code                               *)
(***************************************************************************)

\* Index.handleHashScroll: the top handed to window.scrollTo, -1 when no
\* scroll is issued
handleHashScroll(name, L, P) ==
    IF name \notin P THEN -1
    ELSE IF name = "Home" THEN 0
    ELSE Max(0, offsetTop(name, L) - 80)

\* Hero.scrollToSection: the top handed to window.scrollTo, -1 when no scroll
\* is issued
scrollToSection(name, L, P) ==
    IF name \notin P THEN -1
    ELSE IF name \in {"Menu", "Contact"} THEN Max(0, offsetTop(name, L) - 20)
    ELSE Max(0, 0)

\* faulty variant: the target is not clamped at 0
smoothScrollToUnclamped(name, offset, L, P) ==
    IF name \notin P THEN -1
    ELSE offsetTop(name, L) - offset

\* smoothScrollTo / useSmoothScroll.scrollToElement: the top handed to
\* window.scrollTo, -1 when no scroll is issued
smoothScrollTo(name, offset, L, P) ==
    IF name \notin P THEN -1
    ELSE Max(0, offsetTop(name, L) - offset)

\* the offsets passed to smoothScrollTo, scrollToElement and enhancedScrollToElement
Offsets == {0, 20, 80}

\* no programmatic scroll computed yet
NoScroll == [source |-> "none", name |-> "none", found |-> FALSE, elementTop |-> 0,
             offset |-> 0, top |-> -1]

\* the record of a computed scroll: who computed it, for which section, whether
\* the section's element was found, its offsetTop, the offset subtracted and
\* the top handed to window.scrollTo (-1: no scroll)
Computed(source, name, P, elementTop, offset, top) ==
    [source |-> source, name |-> name, found |-> name \in P, elementTop |-> elementTop,
     offset |-> offset, top |-> top]

TargetInit == progScroll = NoScroll

\* AnimeNavbar.handleNavClick computes its scroll
TargetNavClick(name) ==
    progScroll' = Computed("handleNavClick", name, present, offsetTop(name, layout),
                           IF name = "Home" THEN 0 ELSE 80,
                           navClickTarget(name, layout, present))

\* Navigation.handleNavigation, desktop path, computes its scroll
TargetNavigationDesktop(id) ==
    progScroll' = Computed("handleNavigation", sectionName(id), present,
                           offsetTop(sectionName(id), layout),
                           navOffset(sectionName(id)),
                           navDesktopScrollTop(id, layout, present))

\* ModernNavigation.handleNavigation computes its scroll
TargetModernNavigation(id) ==
    progScroll' = Computed("ModernNavigation", sectionName(id), present,
                           indexOffsetTop(id, layout), 0,
                           modernScrollTop(id, layout, present))

\* the hash changes to #name: Index.handleHashScroll
TargetHashChange(name) ==
    progScroll' = Computed("handleHashScroll", name, present, offsetTop(name, layout),
                           IF name = "Home" THEN 0 ELSE 80,
                           handleHashScroll(name, layout, present))

\* a hero button: handleMenuClick and handleOrderClick call scrollToSection('#menu')
TargetHeroButton ==
    progScroll' = Computed("scrollToSection", "Menu", present, offsetTop("Menu", layout),
                           20, scrollToSection("Menu", layout, present))

\* smoothScrollTo(selector, offset)
TargetSmoothScrollTo(name, offset) ==
    progScroll' = Computed("smoothScrollTo", name, present, offsetTop(name, layout),
                           offset, smoothScrollTo(name, offset, layout, present))

\* enhancedScrollToElement(selector, offset) from offset scrollY
TargetEnhancedScroll(name, offset) ==
    progScroll' = Computed("enhancedScrollToElement", name, present, offsetTop(name, layout),
                           offset,
                           enhancedScrollToElement(name, offset, scrollY, layout, present).target)

TargetNext ==
    \/ \E name \in ItemNames : TargetNavClick(name) /\ UNCHANGED nonTargetVars
    \/ \E i \in DOMAIN navigationItems :
          TargetNavigationDesktop(navigationItems[i]) /\ UNCHANGED nonTargetVars
    \/ \E i \in DOMAIN navigationItems :
          TargetModernNavigation(navigationItems[i]) /\ UNCHANGED nonTargetVars
    \/ \E name \in ItemNames : TargetHashChange(name) /\ UNCHANGED nonTargetVars
    \/ TargetHeroButton /\ UNCHANGED nonTargetVars
    \/ \E name \in ItemNames, offset \in Offsets :
          TargetSmoothScrollTo(name, offset) /\ UNCHANGED nonTargetVars
    \/ \E name \in ItemNames, offset \in Offsets :
          TargetEnhancedScroll(name, offset) /\ UNCHANGED nonTargetVars

(***************************************************************************)
(* OptimizedVideoBackground and SimpleVideoBackground                      *)
(***************************************************************************)

\* navigator.connection.effectiveType
EffectiveTypes == {"slow-2g", "2g", "3g", "4g"}

\* navigator.connection.downlink in tenths of Mbit/s: 0.3, 1.0 and 10
Downlinks == {3, 10, 100}

\* navigator.connection: absent, or its effectiveType and downlink
Connections ==
    {[known |-> FALSE, effectiveType |-> "4g", downlink |-> 100]}
        \cup {[known |-> TRUE, effectiveType |-> t, downlink |-> d] :
                 t \in EffectiveTypes, d \in Downlinks}

\* the props lazy and mobileStrategy
VideoProps == [lazy : BOOLEAN, mobileStrategy : {"video", "image", "auto"}]

\* checkConnection: the value handed to setConnectionSpeed; without
\* navigator.connection the state keeps its value
checkConnection(speed, c) ==
    IF ~c.known THEN speed
    ELSE IF c.effectiveType \in {"slow-2g", "2g"} \/ c.downlink < 5 THEN "slow"
    ELSE IF c.effectiveType \in {"3g"} \/ c.downlink < 15 THEN "medium"
    ELSE "fast"

\* checkMobile: the user agent is a mobile one or window.innerWidth <= 768
checkMobile(env) == env.uaMobile \/ env.narrow

\* faulty variant: the reduced-motion preference is not looked at
loadStrategyIgnoringMotion(st, props) ==
    IF ~st.isInView THEN FALSE
    ELSE IF st.isMobile
         THEN CASE props.mobileStrategy = "image" -> FALSE
                [] props.mobileStrategy = "video" -> TRUE
                [] props.mobileStrategy = "auto" -> st.connectionSpeed = "fast"
         ELSE st.connectionSpeed # "slow"

\* the load-strategy effect: the value handed to setShouldLoadVideo
loadStrategy(st, props) ==
    IF st.prefersReducedMotion THEN FALSE
    ELSE IF ~st.isInView THEN FALSE
    ELSE IF st.isMobile
         THEN CASE props.mobileStrategy = "image" -> FALSE
                [] props.mobileStrategy = "video" -> TRUE
                [] props.mobileStrategy = "auto" -> st.connectionSpeed = "fast"
         ELSE st.connectionSpeed # "slow"

\* the load-strategy effect runs after a render that changed one of its inputs
strategyEffect(st, props) == [st EXCEPT !.shouldLoadVideo = loadStrategy(st, props)]

\* faulty variant: the render does not look at hasError
videoRenderedIgnoringError(st) == st.shouldLoadVideo

\* the render: the <video> element is in the tree unless (!shouldLoadVideo || hasError)
videoRendered(st) == st.shouldLoadVideo /\ ~st.hasError

\* handleVideoLoad
handleVideoLoad(st) == [st EXCEPT !.isLoaded = TRUE]

\* handleVideoError
handleVideoError(st) == [st EXCEPT !.hasError = TRUE, !.isLoaded = FALSE]

\* SimpleVideoBackground: the fallback image is the visible layer
simpleImageShown(st) == ~(st.videoLoaded /\ ~st.videoError)

\* useState initial values of both components, before the mount effects
VideoInit ==
    /\ ovb = [isLoaded |-> FALSE, hasError |-> FALSE, isInView |-> ~ovbProps.lazy,
              shouldLoadVideo |-> FALSE, connectionSpeed |-> "fast", isMobile |-> FALSE,
              prefersReducedMotion |-> FALSE]
    /\ ovbMounted = FALSE
    /\ ovbErrorOccurred = FALSE
    /\ svb = [videoLoaded |-> FALSE, videoError |-> FALSE]
    /\ svbErrorOccurred = FALSE
    /\ svbLoadCalls = 0

\* the default props on a desktop browser without navigator.connection
VideoDefaultEnv ==
    /\ ovbProps = [lazy |-> TRUE, mobileStrategy |-> "auto"]
    /\ ovbEnv = [uaMobile |-> FALSE, narrow |-> FALSE, reducedMotion |-> FALSE,
                 connection |-> [known |-> FALSE, effectiveType |-> "4g", downlink |-> 100]]

\* the mount effects: checkMobile, checkConnection, checkReducedMotion, then
\* the load-strategy effect on the detected values
OvbMount ==
    /\ ~ovbMounted
    /\ ovbMounted' = TRUE
    /\ ovb' = strategyEffect(
                 [ovb EXCEPT !.isMobile = checkMobile(ovbEnv),
                             !.connectionSpeed = checkConnection(@, ovbEnv.connection),
                             !.prefersReducedMotion = ovbEnv.reducedMotion],
                 ovbProps)
    /\ UNCHANGED <<ovbProps, ovbEnv, ovbErrorOccurred, svb, svbErrorOccurred, svbLoadCalls, nonVideoVars>>

\* the window is resized across 768 px: checkMobile, then the load-strategy effect
OvbResize ==
    /\ ovbMounted
    /\ ovbEnv' = [ovbEnv EXCEPT !.narrow = ~@]
    /\ ovb' = strategyEffect([ovb EXCEPT !.isMobile = checkMobile(ovbEnv')], ovbProps)
    /\ UNCHANGED <<ovbProps, ovbMounted, ovbErrorOccurred, svb, svbErrorOccurred, svbLoadCalls, nonVideoVars>>

\* the reduced-motion media query changes: handleChange, then the load-strategy effect
OvbMotionChange ==
    /\ ovbMounted
    /\ ovbEnv' = [ovbEnv EXCEPT !.reducedMotion = ~@]
    /\ ovb' = strategyEffect([ovb EXCEPT !.prefersReducedMotion = ovbEnv'.reducedMotion],
                             ovbProps)
    /\ UNCHANGED <<ovbProps, ovbMounted, ovbErrorOccurred, svb, svbErrorOccurred, svbLoadCalls, nonVideoVars>>

\* the connection changes; the component listens to no connection event
OvbConnectionChange(c) ==
    /\ ovbMounted
    /\ c # ovbEnv.connection
    /\ ovbEnv' = [ovbEnv EXCEPT !.connection = c]
    /\ UNCHANGED <<ovb, ovbProps, ovbMounted, ovbErrorOccurred, svb, svbErrorOccurred,
                   svbLoadCalls, nonVideoVars>>

\* the IntersectionObserver callback with entry.isIntersecting, then the
\* load-strategy effect; the observer disconnects after its first hit
OvbIntersect ==
    /\ ovbMounted
    /\ ovbProps.lazy
    /\ ~ovb.isInView
    /\ ovb' = strategyEffect([ovb EXCEPT !.isInView = TRUE], ovbProps)
    /\ UNCHANGED <<ovbProps, ovbEnv, ovbMounted, ovbErrorOccurred, svb, svbErrorOccurred,
                   svbLoadCalls, nonVideoVars>>

\* onLoadedData of the rendered <video>
OvbVideoLoaded ==
    /\ videoRendered(ovb)
    /\ ovb' = handleVideoLoad(ovb)
    /\ UNCHANGED <<ovbProps, ovbEnv, ovbMounted, ovbErrorOccurred, svb, svbErrorOccurred,
                   svbLoadCalls, nonVideoVars>>

\* onError of the rendered <video>
OvbVideoError ==
    /\ videoRendered(ovb)
    /\ ovb' = handleVideoError(ovb)
    /\ ovbErrorOccurred' = TRUE
    /\ UNCHANGED <<ovbProps, ovbEnv, ovbMounted, svb, svbErrorOccurred, svbLoadCalls, nonVideoVars>>

\* SimpleVideoBackground: the mount effect attaches the listeners and calls
\* video.load()
SvbMount ==
    /\ svbLoadCalls = 0
    /\ svbLoadCalls' = svbLoadCalls + 1
    /\ UNCHANGED <<ovb, ovbProps, ovbEnv, ovbMounted, ovbErrorOccurred, svb, svbErrorOccurred,
                   nonVideoVars>>

\* SimpleVideoBackground: loadeddata; video.play() is rejected or not
SvbLoadedData(playFails) ==
    /\ svbLoadCalls > 0
    /\ svb' = [svb EXCEPT !.videoLoaded = TRUE, !.videoError = @ \/ playFails]
    /\ svbErrorOccurred' = (svbErrorOccurred \/ playFails)
    /\ UNCHANGED <<ovb, ovbProps, ovbEnv, ovbMounted, ovbErrorOccurred, svbLoadCalls,
                   nonVideoVars>>

\* SimpleVideoBackground: error
SvbError ==
    /\ svbLoadCalls > 0
    /\ svb' = [svb EXCEPT !.videoError = TRUE]
    /\ svbErrorOccurred' = TRUE
    /\ UNCHANGED <<ovb, ovbProps, ovbEnv, ovbMounted, ovbErrorOccurred, svbLoadCalls,
                   nonVideoVars>>

\* SimpleVideoBackground: canplay
SvbCanPlay ==
    /\ svbLoadCalls > 0
    /\ svb' = [svb EXCEPT !.videoLoaded = TRUE]
    /\ UNCHANGED <<ovb, ovbProps, ovbEnv, ovbMounted, ovbErrorOccurred, svbErrorOccurred,
                   svbLoadCalls, nonVideoVars>>

VideoNext ==
    \/ OvbMount
    \/ OvbResize
    \/ OvbMotionChange
    \/ \E c \in Connections : OvbConnectionChange(c)
    \/ OvbIntersect
    \/ OvbVideoLoaded
    \/ OvbVideoError
    \/ SvbMount
    \/ \E playFails \in BOOLEAN : SvbLoadedData(playFails)
    \/ SvbError
    \/ SvbCanPlay

(***************************************************************************)
(* useScrollOptimized: the throttled scroll handler                        *)
(***************************************************************************)

\* const { threshold = 50, throttleMs = 16 } = options
throttleMs == 16

\* the time between two events of the model, in ms: a frame of a 120 Hz and
\* of a 60 Hz display
HookSteps == {8, 16}

\* the most animation-frame callbacks of the hook the model lets wait
MaxPending == 2

\* the refs of the hook after the effect's initial handleScroll() call, which
\* requests a frame (Date.now() - 0 is far above throttleMs). sinceLastCall is
\* Date.now() - lastCallTime.current and pendingAge is Date.now() minus the
\* `now` of the handleScroll call that requested the waiting frame, both
\* counted up to throttleMs; delivered is the latest state handed to callback
HookInit ==
    hook = [ticking |-> TRUE, pending |-> 1, pendingAge |-> 0, sinceLastCall |-> throttleMs,
            lastScrollY |-> 0,
            delivered |-> [scrollY |-> -1, isScrolled |-> FALSE, direction |-> "null"]]

\* faulty variant: a frame is requested although one is waiting
handleScrollAlwaysRequests(h) ==
    IF h.sinceLastCall < throttleMs THEN h
    ELSE [h EXCEPT !.ticking = TRUE, !.pending = @ + 1, !.pendingAge = 0]

\* handleScroll: the refs after a scroll event
handleScroll(h) ==
    IF h.sinceLastCall < throttleMs THEN h
    ELSE IF ~h.ticking
         THEN [h EXCEPT !.ticking = TRUE, !.pending = @ + 1, !.pendingAge = 0]
         ELSE h

\* the requestAnimationFrame callback of handleScroll, run at offset y
scrollFrame(h, y) ==
    [h EXCEPT !.delivered = [scrollY |-> y, isScrolled |-> navIsScrolled(y),
                             direction |-> IF y > h.lastScrollY THEN "down"
                                           ELSE IF y < h.lastScrollY THEN "up"
                                           ELSE "null"],
              !.lastScrollY = y,
              !.sinceLastCall = h.pendingAge,
              !.pendingAge = 0,
              !.ticking = FALSE,
              !.pending = @ - 1]

\* the page is scrolled to offset y and the scroll listener runs
HookScrollEvent(y) ==
    /\ y # scrollY
    /\ hook.pending < MaxPending
    /\ scrollY' = y
    /\ hook' = handleScroll(hook)
    /\ UNCHANGED <<layout, present, scrollTarget, debouncer, fnCall, cartVars, animeVars,
                   scrollVars, modernVars, navVars, targetVars, videoVars>>

\* the browser runs a waiting animation-frame callback
HookFrame ==
    /\ hook.pending > 0
    /\ hook' = scrollFrame(hook, scrollY)
    /\ UNCHANGED <<pageVars, debouncer, fnCall, cartVars, animeVars, scrollVars, modernVars,
                   navVars, targetVars, videoVars>>

\* dt ms pass
HookTimePasses(dt) ==
    /\ hook.sinceLastCall < throttleMs \/ (hook.pending > 0 /\ hook.pendingAge < throttleMs)
    /\ hook' = [hook EXCEPT !.sinceLastCall = Min(@ + dt, throttleMs),
                            !.pendingAge = IF hook.pending > 0 THEN Min(@ + dt, throttleMs)
                                           ELSE @]
    /\ UNCHANGED <<pageVars, debouncer, fnCall, cartVars, animeVars, scrollVars, modernVars,
                   navVars, targetVars, videoVars>>

HookNext ==
    \/ \E y \in NavScrollPoints(layout) : HookScrollEvent(y)
    \/ HookFrame
    \/ \E dt \in HookSteps : HookTimePasses(dt)

(***************************************************************************)
(* performanceMonitor: debounce(func, wait)                                *)
(***************************************************************************)

\* wait, in time units, and the steps in which time passes
wait == 3
DebounceSteps == {1, 2}

\* the arguments the debounced function is called with, and how many calls
\* are followed
DebounceArgs == {"a", "b"}
MaxCalls == 3

\* debounce(func, wait) has returned: `timeout` is undefined (0), no timer is
\* set.  The remaining fields record the calls made and the invocations of
\* func: calls are numbered 1, 2, ... and a timer carries the number of the
\* call that set it.
DebounceInit ==
    debouncer = [timeout |-> 0, timers |-> {},
                 calls |-> 0, latestArgs |-> "none", sinceCall |-> 0,
                 firedSinceCall |-> 0, invoked |-> {}, superseded |-> {},
                 lastInvoke |-> [id |-> 0, args |-> "none", latestId |-> 0,
                                 latestArgs |-> "none", since |-> 0]]

\* setTimeout / clearTimeout on the set of timers waiting in the browser
clearTimeoutKeepsTimer(timers, handle) == timers

clearTimeout(timers, handle) == {t \in timers : t.id # handle}

setTimeout(timers, id, args) == timers \cup {[id |-> id, args |-> args, remaining |-> wait]}

\* the function debounce returns, called with args
debounced(d, args) ==
    LET id == d.calls + 1 IN
    [d EXCEPT !.timers = setTimeout(clearTimeout(d.timers, d.timeout), id, args),
              !.timeout = id,
              !.calls = id,
              !.latestArgs = args,
              !.sinceCall = 0,
              !.firedSinceCall = 0,
              !.superseded = IF d.calls > 0 /\ d.sinceCall < wait
                             THEN @ \cup {d.calls} ELSE @]

\* the timer t runs: () => func(...args)
timerRuns(d, t) ==
    [d EXCEPT !.timers = @ \ {t},
              !.firedSinceCall = @ + 1,
              !.invoked = @ \cup {t.id},
              !.lastInvoke = [id |-> t.id, args |-> t.args, latestId |-> d.calls,
                              latestArgs |-> d.latestArgs, since |-> d.sinceCall]]

timerDue(d) == \E t \in d.timers : t.remaining = 0

\* the debounced function is called; a timer that is due was queued earlier
\* and runs first
DebounceCall(args) ==
    /\ debouncer.calls < MaxCalls
    /\ ~timerDue(debouncer)
    /\ debouncer' = debounced(debouncer, args)
    /\ UNCHANGED <<hook, fnCall, cartVars, pageVars, animeVars, scrollVars, modernVars,
                   navVars, targetVars, videoVars>>

\* a timer whose delay has elapsed runs
DebounceTimeout ==
    /\ \E t \in debouncer.timers :
          /\ t.remaining = 0
          /\ debouncer' = timerRuns(debouncer, t)
    /\ UNCHANGED <<hook, fnCall, cartVars, pageVars, animeVars, scrollVars, modernVars,
                   navVars, targetVars, videoVars>>

\* dt time units pass, no further than the next timer
DebounceTimePasses(dt) ==
    /\ debouncer.calls > 0
    /\ debouncer.sinceCall <= wait
    /\ \A t \in debouncer.timers : dt <= t.remaining
    /\ debouncer' = [debouncer EXCEPT
                       !.timers = {[t EXCEPT !.remaining = @ - dt] : t \in debouncer.timers},
                       !.sinceCall = Min(@ + dt, wait + 1)]
    /\ UNCHANGED <<hook, fnCall, cartVars, pageVars, animeVars, scrollVars, modernVars,
                   navVars, targetVars, videoVars>>

DebounceNext ==
    \/ \E args \in DebounceArgs : DebounceCall(args)
    \/ DebounceTimeout
    \/ \E dt \in DebounceSteps : DebounceTimePasses(dt)

\* no pure function has been called
FnInit == fnCall = [fn |-> "none", done |-> FALSE, input |-> <<>>, output |-> <<>>]

(***************************************************************************)
(* OptimizedVideoBackground: the first <source> of the <video>             *)
(***************************************************************************)

\* video.canPlayType('video/webm')
CanPlayTypes == {"", "maybe", "probably"}

\* the renders of the <video>: the state, the browser and the sources given
\* (videoSources.mp4 is required, webm and mobile are optional)
SourceInputs ==
    [isMobile : BOOLEAN, connectionSpeed : {"slow", "medium", "fast"},
     canPlayWebm : CanPlayTypes, webm : BOOLEAN, mobile : BOOLEAN]

\* getOptimalVideoSource: which of videoSources' URLs is returned
getOptimalVideoSource(in) ==
    IF in.isMobile /\ in.mobile THEN "mobile"
    ELSE IF in.webm /\ in.connectionSpeed = "fast" /\ in.canPlayWebm # "" THEN "webm"
    ELSE "mp4"

\* the type attribute of the first <source>
firstSourceType(in) == IF in.webm THEN "video/webm" ELSE "video/mp4"

\* the format of the file behind a URL of videoSources: the mobile variant
\* is an MP4 file
urlFormat(url) == IF url = "webm" THEN "video/webm" ELSE "video/mp4"

SourceInit ==
    \E in \in SourceInputs :
        fnCall = [fn |-> "firstSource", done |-> FALSE, input |-> in, output |-> <<>>]

\* the <video> is rendered: <source src={getOptimalVideoSource()} type={...}>
RenderFirstSource ==
    /\ fnCall.fn = "firstSource"
    /\ ~fnCall.done
    /\ fnCall' = [fnCall EXCEPT !.done = TRUE,
                                !.output = [src |-> getOptimalVideoSource(fnCall.input),
                                            type |-> firstSourceType(fnCall.input)]]
    /\ UNCHANGED <<hook, debouncer, cartVars, pageVars, animeVars, scrollVars, modernVars,
                   navVars, targetVars, videoVars>>

(***************************************************************************)
(* useDevicePerformance and useOptimizedAnimations                         *)
(* Scores are kept in half points (deviceMemory 0.25 adds 2.5), memory in  *)
(* quarters of a gigabyte, durations in hundredths of a second.            *)
(***************************************************************************)

\* navigator.hardwareConcurrency (0: not reported)
Cores == {0, 1, 2, 4, 8, 16}

\* navigator.deviceMemory in quarter GB (0: not reported)
MemoryQuarters == {0, 1, 2, 4, 8, 16, 32}

\* navigator.connection?.effectiveType ("none": no navigator.connection)
ConnectionTypes == {"none"} \cup EffectiveTypes

\* the user agent: not Chrome on Android, Chrome < 80 on Android, Chrome >= 80
\* on Android
UserAgents == {"other", "androidChromeOld", "androidChromeNew"}

PerformanceInputs ==
    [cores : Cores, memory : MemoryQuarters, effectiveType : ConnectionTypes,
     userAgent : UserAgents, prefersReducedMotion : BOOLEAN, isMobile : BOOLEAN]

\* getDevicePerformance, in half points
getDevicePerformance(in) ==
    LET cores == IF in.cores = 0 THEN 2 ELSE in.cores
        s1 == Min(2 * cores * 10, 2 * 40)
        s2 == s1 + (IF in.memory # 0 THEN Min(in.memory * 5, 2 * 30) ELSE 2 * 15)
        s3 == s2 + (CASE in.effectiveType = "4g" -> 2 * 20
                      [] in.effectiveType = "3g" -> 2 * 10
                      [] in.effectiveType = "2g" -> 2 * 5
                      [] OTHER -> 2 * 15)
        s4 == IF in.userAgent = "androidChromeOld" THEN s3 - 2 * 10 ELSE s3
    IN Max(0, Min(2 * 100, s4))

shouldReduceAnimationsBelowThirty(in, score) == in.prefersReducedMotion \/ score < 2 * 30

shouldReduceAnimations(in, score) == in.prefersReducedMotion \/ score < 2 * 50

\* the object useDevicePerformance returns
useDevicePerformance(in) ==
    LET performanceScore == getDevicePerformance(in) IN
    [score |-> performanceScore,
     isLowEnd |-> performanceScore < 2 * 40,
     isMidRange |-> performanceScore >= 2 * 40 /\ performanceScore < 2 * 70,
     isHighEnd |-> performanceScore >= 2 * 70,
     prefersReducedMotion |-> in.prefersReducedMotion,
     shouldReduceAnimations |-> shouldReduceAnimations(in, performanceScore)]

reducedConfig == [duration |-> 10, ease |-> "linear", staggerChildren |-> 0, delayChildren |-> 0]
lowEndConfig == [duration |-> 30, ease |-> "easeOut", staggerChildren |-> 5, delayChildren |-> 10]
mobileConfig == [duration |-> 40, ease |-> "cubic", staggerChildren |-> 8, delayChildren |-> 10]
defaultConfig == [duration |-> 60, ease |-> "cubic", staggerChildren |-> 10, delayChildren |-> 20]

\* animationConfig of useOptimizedAnimations
animationConfig(perf, isMobile) ==
    IF perf.shouldReduceAnimations THEN reducedConfig
    ELSE IF perf.isLowEnd THEN lowEndConfig
    ELSE IF isMobile THEN mobileConfig
    ELSE defaultConfig

PerformanceInit ==
    \E in \in PerformanceInputs :
        fnCall = [fn |-> "animationConfig", done |-> FALSE, input |-> in, output |-> <<>>]

\* useOptimizedAnimations renders: useDevicePerformance, then animationConfig
UseOptimizedAnimations ==
    /\ fnCall.fn = "animationConfig"
    /\ ~fnCall.done
    /\ LET perf == useDevicePerformance(fnCall.input) IN
         fnCall' = [fnCall EXCEPT !.done = TRUE,
                                  !.output = [perf |-> perf,
                                              config |-> animationConfig(perf, fnCall.input.isMobile)]]
    /\ UNCHANGED <<hook, debouncer, cartVars, pageVars, animeVars, scrollVars, modernVars,
                   navVars, targetVars, videoVars>>

(***************************************************************************)
(* Specifications                                                          *)
(***************************************************************************)

Init ==
    /\ CartInit
    /\ PageInit
    /\ AnimeInit
    /\ ScrollInit
    /\ ModernInit
    /\ NavInit
    /\ TargetInit
    /\ VideoDefaultEnv
    /\ VideoInit
    /\ HookInit
    /\ DebounceInit
    /\ FnInit
    /\ navMobile = FALSE

\* the initial state with the page the cart is shown in: one layout, every
\* section rendered
CartPageInit ==
    /\ CartInit
    /\ AnimeInit
    /\ ScrollInit
    /\ ModernInit
    /\ NavInit
    /\ TargetInit
    /\ VideoDefaultEnv
    /\ VideoInit
    /\ HookInit
    /\ DebounceInit
    /\ FnInit
    /\ navMobile = FALSE
    /\ scrollY = 0
    /\ layout = [innerHeight |-> 800, heroHeight |-> 800]
    /\ present = ItemNames
    /\ scrollTarget = -1

CartSpec == CartPageInit /\ [][CartNext]_vars

\* the pages AnimeNavbar is put on: every section rendered, the page without
\* #about, shorter drafts of the page, pages without #home, and a page with
\* none of the sections
AnimeSections ==
    {ItemNames, {"Home", "Menu", "Contact"}, {"Home", "Menu"}, {"Home"},
     {"Menu", "About", "Contact"}, {"Menu", "Contact"}, {"About"}, {}}

AnimePageInit ==
    /\ CartInit
    /\ AnimeInit
    /\ ScrollInit
    /\ ModernInit
    /\ NavInit
    /\ TargetInit
    /\ VideoDefaultEnv
    /\ VideoInit
    /\ HookInit
    /\ DebounceInit
    /\ FnInit
    /\ navMobile = FALSE
    /\ scrollY = 0
    /\ layout \in Layouts
    /\ present \in AnimeSections
    /\ scrollTarget = -1

AnimeSpec == AnimePageInit /\ [][AnimeNext]_vars

\* the page the two-phase scroll runs in: #home and #menu rendered, no #about
ScrollPageInit ==
    /\ CartInit
    /\ AnimeInit
    /\ ScrollInit
    /\ ModernInit
    /\ NavInit
    /\ TargetInit
    /\ VideoDefaultEnv
    /\ VideoInit
    /\ HookInit
    /\ DebounceInit
    /\ FnInit
    /\ navMobile = FALSE
    /\ scrollY = 0
    /\ layout = [innerHeight |-> 800, heroHeight |-> 800]
    /\ present = {"Home", "Menu"}
    /\ scrollTarget = -1

ScrollSpec == ScrollPageInit /\ [][ScrollNext]_vars

\* animation frames keep coming and a due timeout fires
ScrollFairSpec ==
    /\ ScrollSpec
    /\ WF_vars(\E dt \in FrameSteps : AnimationFrame(dt))
    /\ WF_vars(\E i \in DOMAIN anims : FadeTimeout(i))

\* the Index page: the hero, and the lazily loaded sections once they are there
ModernPageInit ==
    /\ CartInit
    /\ AnimeInit
    /\ ScrollInit
    /\ ModernInit
    /\ NavInit
    /\ TargetInit
    /\ VideoDefaultEnv
    /\ VideoInit
    /\ HookInit
    /\ DebounceInit
    /\ FnInit
    /\ navMobile = FALSE
    /\ scrollY = 0
    /\ layout \in Layouts
    /\ present \in IndexSections
    /\ scrollTarget = -1

ModernSpec == ModernPageInit /\ [][ModernNext]_vars

\* the page Navigation is shown in: #home and #menu rendered, #contact not
\* (yet) mounted
NavPageInit ==
    /\ CartInit
    /\ AnimeInit
    /\ ScrollInit
    /\ ModernInit
    /\ NavInit
    /\ TargetInit
    /\ VideoDefaultEnv
    /\ VideoInit
    /\ HookInit
    /\ DebounceInit
    /\ FnInit
    /\ navMobile \in BOOLEAN
    /\ scrollY = 0
    /\ layout = [innerHeight |-> 800, heroHeight |-> 800]
    /\ present = {"Home", "Menu"}
    /\ scrollTarget = -1

NavSpec == NavPageInit /\ [][NavNext]_vars

\* time keeps passing and a due timeout fires
NavFairSpec ==
    /\ NavSpec
    /\ WF_vars(\E dt \in NavSteps : NavTimePasses(dt))
    /\ WF_vars(NavTimeoutFire)
    /\ WF_vars(\E i \in DOMAIN anims : NavFadeTimeout(i))

\* the scroll targets are computed on every page of the model
TargetSpec == Init /\ [][TargetNext]_vars

\* the hero with its video background: any props, device, connection and
\* motion preference
VideoPageInit ==
    /\ CartInit
    /\ AnimeInit
    /\ ScrollInit
    /\ ModernInit
    /\ NavInit
    /\ TargetInit
    /\ ovbProps \in VideoProps
    /\ ovbEnv \in [uaMobile : BOOLEAN, narrow : BOOLEAN, reducedMotion : BOOLEAN,
                   connection : Connections]
    /\ VideoInit
    /\ HookInit
    /\ DebounceInit
    /\ FnInit
    /\ navMobile = FALSE
    /\ scrollY = 0
    /\ layout = [innerHeight |-> 800, heroHeight |-> 800]
    /\ present = ItemNames
    /\ scrollTarget = -1

VideoSpec == VideoPageInit /\ [][VideoNext]_vars

\* the page a useScrollOptimized instance listens on
HookPageInit ==
    /\ CartInit
    /\ AnimeInit
    /\ ScrollInit
    /\ ModernInit
    /\ NavInit
    /\ TargetInit
    /\ VideoDefaultEnv
    /\ VideoInit
    /\ HookInit
    /\ DebounceInit
    /\ FnInit
    /\ navMobile = FALSE
    /\ scrollY = 0
    /\ layout \in Layouts
    /\ present = {"Home", "Menu"}
    /\ scrollTarget = -1

HookSpec == HookPageInit /\ [][HookNext]_vars

\* every waiting animation frame runs, and time passes
HookFairSpec ==
    /\ HookSpec
    /\ WF_vars(HookFrame)
    /\ WF_vars(\E dt \in HookSteps : HookTimePasses(dt))

\* a render of the <video> of OptimizedVideoBackground, for every input
SourcePageInit ==
    /\ CartInit
    /\ scrollY = 0
    /\ layout = [innerHeight |-> 800, heroHeight |-> 800]
    /\ present = ItemNames
    /\ scrollTarget = -1
    /\ AnimeInit
    /\ ScrollInit
    /\ ModernInit
    /\ NavInit
    /\ TargetInit
    /\ VideoDefaultEnv
    /\ VideoInit
    /\ HookInit
    /\ DebounceInit
    /\ SourceInit
    /\ navMobile = FALSE

SourceSpec == SourcePageInit /\ [][RenderFirstSource]_vars

\* a debounced function on a page at rest
DebouncePageInit ==
    /\ CartInit
    /\ scrollY = 0
    /\ layout = [innerHeight |-> 800, heroHeight |-> 800]
    /\ present = ItemNames
    /\ scrollTarget = -1
    /\ AnimeInit
    /\ ScrollInit
    /\ ModernInit
    /\ NavInit
    /\ TargetInit
    /\ VideoDefaultEnv
    /\ VideoInit
    /\ HookInit
    /\ DebounceInit
    /\ FnInit
    /\ navMobile = FALSE

DebounceSpec == DebouncePageInit /\ [][DebounceNext]_vars

\* a render of useOptimizedAnimations, for every device
PerformancePageInit ==
    /\ CartInit
    /\ scrollY = 0
    /\ layout = [innerHeight |-> 800, heroHeight |-> 800]
    /\ present = ItemNames
    /\ scrollTarget = -1
    /\ AnimeInit
    /\ ScrollInit
    /\ ModernInit
    /\ NavInit
    /\ TargetInit
    /\ VideoDefaultEnv
    /\ VideoInit
    /\ HookInit
    /\ DebounceInit
    /\ PerformanceInit
    /\ navMobile = FALSE

PerformanceSpec == PerformancePageInit /\ [][UseOptimizedAnimations]_vars

Next ==
    \/ CartNext \/ AnimeNext \/ ScrollNext \/ ModernNext \/ NavNext \/ TargetNext \/ VideoNext
    \/ HookNext
    \/ RenderFirstSource
    \/ DebounceNext
    \/ UseOptimizedAnimations

Spec == Init /\ [][Next]_vars

\* sum of the quantities of the entries at the indices S, independent of the reducer's fold
RECURSIVE SumQty(_, _)
SumQty(its, S) ==
    IF S = {} THEN 0
    ELSE LET i == CHOOSE j \in S : TRUE
         IN its[i].quantity + SumQty(its, S \ {i})

\* sum of price * quantity of the entries at the indices S
RECURSIVE SumCost(_, _)
SumCost(its, S) ==
    IF S = {} THEN 0
    ELSE LET i == CHOOSE j \in S : TRUE
         IN its[i].price * its[i].quantity + SumCost(its, S \ {i})

\* C1: after any sequence of cart actions totalItems is the sum of the
\* quantities and totalPrice the sum of price * quantity over the cart's items.
C1_TotalsAreSums ==
    /\ cartState.totalItems = SumQty(cartState.items, DOMAIN cartState.items)
    /\ cartState.totalPrice = SumCost(cartState.items, DOMAIN cartState.items)

\* two different items with a quantity above 1 in the cart (the totals are not trivial)
C1_Witness ==
    /\ Len(cartState.items) = 2
    /\ cartState.items[1].quantity = 1
    /\ cartState.items[2].quantity = 3
    /\ cartState.totalItems = 4

C3_QuantityPositive ==
    /\ \A i \in DOMAIN cartState.items :
          cartState.items[i].quantity \in Nat /\ cartState.items[i].quantity >= 1
    /\ (lastOp.op = "minus" /\ lastOp.before = 1) =>
          ~InCart(cartState.items, lastOp.id)

\* the minus button was pressed on an item of quantity 1 while another item stays
C3_Witness ==
    /\ lastOp.op = "minus"
    /\ lastOp.before = 1
    /\ Len(cartState.items) >= 1

\* C4 (as claimed): after "Proceed to Checkout" the cart holds no items and
\* both totals are 0.
C4_CheckoutClearsCart ==
    lastOp.op = "checkout" =>
        /\ cartState.items = <<>>
        /\ cartState.totalItems = 0
        /\ cartState.totalPrice = 0

C7_NoBoundaryOscillation ==
    oscFlips <= 1

\* invocation i found its element and started the two-phase animation
Animated(i) ==
    /\ anims[i].target # -1
    /\ Abs(anims[i].target - anims[i].start) >= 10

\* C8: an invocation with |target - start| < 10 px has invoked the completion
\* callback exactly once, at once, and has created no overlay element, requested
\* no animation frame and issued no scrollTo.
C8_SkipWithinTenPx ==
    \A i \in DOMAIN anims :
        (anims[i].target # -1 /\ Abs(anims[i].target - anims[i].start) < 10) =>
            /\ anims[i].completeCalls = 1
            /\ anims[i].phase = "done"
            /\ i \notin overlays
            /\ ~anims[i].rafRequested
            /\ anims[i].lastScrollTo = -1

\* an invocation started 1..9 px away from its target
C8_Witness ==
    \E i \in DOMAIN anims :
        /\ anims[i].target # -1
        /\ anims[i].target # anims[i].start
        /\ Abs(anims[i].target - anims[i].start) < 10
        /\ anims[i].completeCalls = 1

\* the order of a two-phase scroll: no callback while a phase or the fade runs,
\* phase 2 only after phase 1 reached progress 1, the fade only after phase 2
\* reached progress 1, the callback only after the 300 ms timer, and only once
C9_Order ==
    \A i \in DOMAIN anims :
        Animated(i) =>
            /\ anims[i].completeCalls <= 1
            /\ anims[i].phase \in {"phase1", "phase2", "fade"} => anims[i].completeCalls = 0
            /\ anims[i].phase = "phase1" => anims[i].p2Progress = -1
            /\ anims[i].phase \in {"phase2", "fade", "done"} => anims[i].p1Progress = 800
            /\ anims[i].phase \in {"fade", "done"} => anims[i].p2Progress = 1200
            /\ anims[i].phase = "done" =>
                  anims[i].completeCalls = 1 /\ anims[i].fadeElapsed >= 300

\* C9: for a two-phase scroll with |target - start| >= 10 px the completion
\* callback is invoked exactly once, and only after phase 1 reached progress 1,
\* then phase 2 reached progress 1, then the 300 ms fade timer fired; phase 2
\* never starts before phase 1 has finished.
C9_CallbackOnceAfterBothPhases ==
    /\ []C9_Order
    /\ (\E i \in DOMAIN anims : Animated(i) /\ anims[i].phase # "done") ~>
          (\A i \in DOMAIN anims :
              Animated(i) => (anims[i].completeCalls = 1 /\ anims[i].phase = "done"))

\* a two-phase scroll has completed
C9_Witness ==
    \E i \in DOMAIN anims :
        /\ Animated(i)
        /\ anims[i].phase = "done"
        /\ anims[i].completeCalls = 1

\* once the callback of an invocation has fired its overlay is out of the
\* document, and with no animation in flight the document holds no overlay
C10_NoOverlayLeft ==
    /\ \A i \in DOMAIN anims : anims[i].completeCalls >= 1 => i \notin overlays
    /\ (\A i \in DOMAIN anims : ~InFlight(anims[i])) => overlays = {}
    /\ overlays \subseteq DOMAIN anims

\* C10: every overlay element appended by enhancedScrollToElement is eventually
\* removed; once an animation's callback has fired its overlay is no longer in
\* the document, and when no animation is in flight there are 0 overlays.
C10_OverlayEventuallyRemoved ==
    /\ []C10_NoOverlayLeft
    /\ (overlays # {}) ~> (overlays = {})

\* two overlays were in the document and both animations have completed
C10_Witness ==
    /\ Len(anims) >= 2
    /\ Animated(1) /\ Animated(2)
    /\ anims[1].completeCalls = 1
    /\ anims[2].completeCalls = 1
    /\ overlays = {}

\* after a scroll event inside the 1000 ms window of the latest nav click the
\* active item is the clicked item
C11_Suppressed ==
    (navTimers # <<>> /\ navTimers[Len(navTimers)] > 0 /\ lastEvent = "scroll")
        => activeItem = clickedItem

\* with no timer pending the scroll-spy is not suppressed
C11_ResumesAfterWindow ==
    navTimers = <<>> => ~isNavigating

\* C11: from a nav click of AnimeNavbar until the 1000 ms window of that click
\* ends no scroll event changes the active item, which stays the clicked item;
\* after the window scroll events update the active item again.
C11_ClickedStaysActiveInWindow ==
    C11_Suppressed /\ C11_ResumesAfterWindow

\* C12: in ModernNavigation, after a nav item is clicked, the clicked item is
\* the active item after every scroll event of the resulting smooth scroll.
C12_ClickedStaysActive ==
    (mnClicked # "none" /\ mnLastEvent = "scroll") => mnActiveItem = mnClicked

\* C13: after every nav click in Navigation (desktop or mobile path, target
\* section in the DOM or not) isNavigating eventually returns to false.
C13_IsNavigatingEventuallyFalse ==
    navState.isNavigating ~> ~navState.isNavigating

\* the span [top, bottom) of a present section holds scroll offset + 80
SpyInSpan(name) ==
    /\ name \in present
    /\ offsetTop(name, layout) <= scrollY + 80
    /\ scrollY + 80 < offsetTop(name, layout) + rectHeight(name, layout)

\* C14: in AnimeNavbar, for scroll offset >= 100 and no navigation in progress,
\* the active item is the first section in nav order whose span [top, bottom)
\* contains scroll offset + 80; when no span contains it, the active item is
\* a present section whose top is nearest to the top of the viewport.
C14_SpanThenClosest ==
    (~isNavigating /\ scrollY >= 100) =>
        LET spans == {i \in DOMAIN items : SpyInSpan(items[i])}
        IN IF spans # {}
           THEN \E i \in spans : activeItem = items[i] /\ \A j \in spans : i <= j
           ELSE present # {} =>
                   /\ activeItem \in present
                   /\ \A n \in present :
                          Abs(offsetTop(activeItem, layout) - scrollY)
                              <= Abs(offsetTop(n, layout) - scrollY)

\* a scroll event left no span holding the offset and the nearest of several
\* sections, not the first one, became active
C14_Witness ==
    /\ ~isNavigating
    /\ scrollY >= 100
    /\ lastEvent = "scroll"
    /\ \A i \in DOMAIN items : ~SpyInSpan(items[i])
    /\ Cardinality(present) >= 2
    /\ activeItem # "Home"
    /\ "Home" \in present

\* C15: for scroll offset >= 100 the scroll-spy never makes a section active
\* whose anchor element is absent from the DOM, for every subset of the four
\* sections that is present, the empty subset included.
C15_NeverSelectsAbsent ==
    (~isNavigating /\ scrollY >= 100) => activeItem \in present

\* C15 as the code has it: with at least one section present the active item
\* is a present section; with none present it is the default, sections[0]
C15_AbsentSkippedHomeDefault ==
    (~isNavigating /\ scrollY >= 100) =>
        /\ present # {} => activeItem \in present
        /\ present = {} => activeItem = items[1]

\* a scroll event with #home and other sections absent and no span holding
\* the offset made a present section active
C15_Witness ==
    /\ ~isNavigating
    /\ scrollY >= 100
    /\ lastEvent = "scroll"
    /\ "Home" \notin present
    /\ Cardinality(present) \in {1, 2}
    /\ \A i \in DOMAIN items : ~SpyInSpan(items[i])
    /\ activeItem \in present

\* C16: every scroll target computed for navigation is max(0, offsetTop - offset):
\* it is never negative and 0 for the home section; a missing target element
\* results in no scroll.
C16_TargetClampedMissingNoScroll ==
    /\ progScroll.top # -1 =>
          /\ progScroll.top >= 0
          /\ progScroll.elementTop - progScroll.offset >= 0
                => progScroll.top = progScroll.elementTop - progScroll.offset
          /\ progScroll.elementTop - progScroll.offset < 0 => progScroll.top = 0
          /\ progScroll.name = "Home" => progScroll.top = 0
    /\ (progScroll.source # "none" /\ ~progScroll.found) => progScroll.top = -1

\* C16 as the code has it: a missing element results in no scroll, except
\* that a click on Home in AnimeNavbar and on the desktop path of Navigation
\* scrolls to 0 without looking the element up
C16_TargetClampedHomeAlwaysScrolls ==
    /\ progScroll.top # -1 =>
          /\ progScroll.top >= 0
          /\ progScroll.elementTop - progScroll.offset >= 0
                => progScroll.top = progScroll.elementTop - progScroll.offset
          /\ progScroll.elementTop - progScroll.offset < 0 => progScroll.top = 0
          /\ progScroll.name = "Home" => progScroll.top = 0
    /\ (progScroll.source # "none" /\ ~progScroll.found) =>
          IF progScroll.name = "Home"
             /\ progScroll.source \in {"handleNavClick", "handleNavigation"}
          THEN progScroll.top = 0
          ELSE progScroll.top = -1
    /\ (progScroll.source # "none" /\ progScroll.found) => progScroll.top # -1

\* a target that would be negative was clamped to 0
C16_Witness ==
    /\ progScroll.found
    /\ progScroll.elementTop - progScroll.offset < 0
    /\ progScroll.top = 0

\* the connection is deemed too slow: 'slow' on a desktop, anything but 'fast'
\* on a mobile device with strategy 'auto'
C17_TooSlow ==
    \/ ~ovb.isMobile /\ ovb.connectionSpeed = "slow"
    \/ ovb.isMobile /\ ovbProps.mobileStrategy = "auto" /\ ovb.connectionSpeed # "fast"

C18_FailureIsTerminal ==
    /\ [][ovb.hasError => ovb'.hasError]_vars
    /\ [][svb.videoError => svb'.videoError]_vars
    /\ [][svbErrorOccurred => svbLoadCalls' = svbLoadCalls]_vars
    /\ [](ovbErrorOccurred => (ovb.hasError /\ ~videoRendered(ovb)))
    /\ [](svbErrorOccurred => (svb.videoError /\ simpleImageShown(svb)))

\* both videos have failed; the load strategy of OptimizedVideoBackground
\* still asks for the video and the video of SimpleVideoBackground has data
C18_Witness ==
    /\ ovbErrorOccurred
    /\ ovb.shouldLoadVideo
    /\ ovb.isInView
    /\ ~ovbEnv.reducedMotion
    /\ ~videoRendered(ovb)
    /\ svbErrorOccurred
    /\ svb.videoLoaded
    /\ simpleImageShown(svb)

\* C19: under the default strategy, with no reduced-motion preference, the
\* container in view and no load error, a slow connection shows the static
\* image only, and a medium and a fast connection load the video, on mobile
\* and on desktop devices alike.
C19_ConnectionBasedLoading ==
    (/\ ovbMounted
     /\ ovbProps.mobileStrategy = "auto"
     /\ ~ovbEnv.reducedMotion
     /\ ovb.isInView
     /\ ~ovb.hasError)
       => (videoRendered(ovb) <=> ovb.connectionSpeed \in {"medium", "fast"})

\* C20: after Navigation is unmounted, none of the callbacks it scheduled
\* runs: not the 1000 ms isNavigating timer, not a pending animation frame of
\* the scroll handler, not a frame or timeout of a two-phase scroll in flight.
C20_NoCallbackAfterTeardown == navLateCallbacks = {}

\* C21: the navbar state is recomputed on resize: in the state after a resize
\* event that changed the hero's height, the visibility and the active item
\* of ModernNavigation are those of the new layout at the current offset.
C21_RecomputedOnResize ==
    mnLastEvent = "resize" =>
        /\ mnIsVisible = modernIsVisible(scrollY, layout, present)
        /\ mnActiveItem = modernActiveItem(scrollY, layout, present)

\* C22: while the mobile menu of Navigation is open, after a Tab or Shift+Tab
\* press the focused element is one of the menu's focusable elements; after
\* Escape the menu is closed and the trap's listener is removed.
C22_FocusStaysInMenu ==
    /\ (menuMounted(navState) /\ navFocus.key \in {"Tab", "Shift+Tab"})
          => navFocus.activeElement \in 1..menuFocusable
    /\ navFocus.key = "Escape" => (~navState.isMenuOpen /\ navFocus.trap = "none")

\* C23: the suppression window belongs to the most recent click: while less
\* than 1000 ms have passed since the latest nav click of AnimeNavbar,
\* isNavigating is true.
C23_WindowOfLatestClick ==
    (navTimers # <<>> /\ navTimers[Len(navTimers)] > 0) => isNavigating

\* every invocation in flight has its own overlay in the document and, while
\* in phase 1 or 2, its own animation frame requested; none has had its
\* callback invoked more than once, and a completed one exactly once
C24_EachInFlightRuns ==
    \A i \in DOMAIN anims :
        /\ InFlight(anims[i]) <=> i \in overlays
        /\ anims[i].phase \in {"phase1", "phase2"} => anims[i].rafRequested
        /\ anims[i].completeCalls <= 1
        /\ (Animated(i) /\ anims[i].phase = "done") => anims[i].completeCalls = 1

\* a step changes an invocation only by a frame or the timeout of its own: a
\* further call of enhancedScrollToElement leaves the earlier ones as they are
C24_OwnStepsOnly ==
    /\ Len(anims') >= Len(anims)
    /\ \A i \in DOMAIN anims :
          \/ anims'[i] = anims[i]
          \/ \E dt \in FrameSteps : anims'[i] = animFrame(anims[i], dt)
          \/ /\ anims[i].phase = "fade"
             /\ anims[i].fadeElapsed >= fadeDelay
             /\ anims'[i] = [anims[i] EXCEPT !.phase = "done", !.completeCalls = 1]
    /\ Len(anims') > Len(anims) =>
          \A i \in DOMAIN anims : anims'[i] = anims[i] /\ (i \in overlays <=> i \in overlays')

\* C24: a two-phase scroll in flight is not cancelled by a second call of
\* enhancedScrollToElement: both animations go on with their own frames and
\* scrollTo calls, both overlays are in the document at the same time, and
\* the completion callback of each is invoked once.
C24_NoCancellation == []C24_EachInFlightRuns /\ [][C24_OwnStepsOnly]_vars

\* the second invocation was made while the first was in flight; both have
\* issued a scrollTo since and both overlays are in the document
C24_Witness ==
    /\ Len(anims) >= 2
    /\ anims[1].phase \in {"phase1", "phase2"}
    /\ anims[2].phase \in {"phase1", "phase2"}
    /\ anims[1].lastScrollTo # -1
    /\ anims[2].lastScrollTo # -1
    /\ anims[2].start # anims[1].start
    /\ {1, 2} \subseteq overlays

\* x lies between a and b, inclusive
Between(x, a, b) == (a <= x /\ x <= b) \/ (b <= x /\ x <= a)

\* the fraction f lies between the integers a and b, inclusive
FractionBetween(f, a, b) ==
    \/ a * f[2] <= f[1] /\ f[1] <= b * f[2]
    \/ b * f[2] <= f[1] /\ f[1] <= a * f[2]

C26_FinalPositionDelivered ==
    (hook.delivered.scrollY # scrollY) ~> (hook.delivered.scrollY = scrollY)

C28_TypeMatchesSource ==
    (fnCall.fn = "firstSource" /\ fnCall.done) =>
        fnCall.output.type = urlFormat(fnCall.output.src)

C30_LowEndConfigNeverSelected ==
    (fnCall.fn = "animationConfig" /\ fnCall.done) =>
        LET perf == fnCall.output.perf IN
        /\ perf.score >= 0 /\ perf.score <= 2 * 100
        /\ Cardinality({b \in {"low", "mid", "high"} :
                            \/ b = "low" /\ perf.isLowEnd
                            \/ b = "mid" /\ perf.isMidRange
                            \/ b = "high" /\ perf.isHighEnd}) = 1
        /\ perf.isLowEnd => perf.shouldReduceAnimations
        /\ fnCall.output.config # lowEndConfig
        /\ perf.isLowEnd => fnCall.output.config = reducedConfig

C30_Witness ==
    /\ fnCall.fn = "animationConfig"
    /\ fnCall.done
    /\ fnCall.output.perf.isLowEnd
    /\ ~fnCall.input.prefersReducedMotion
    /\ fnCall.output.config = reducedConfig

====
